---- MODULE Spec2Model ----
(***************************************************************************)
(* A model of the account pool of the tg package: Account (start / stop),  *)
(* AccountCollection (session, start_sessions, close_sessions, get_acc,    *)
(* min_wait, flood_wait) and the Scanner operations built on get_acc.      *)
(*                                                                         *)
(* The program runs on one asyncio event loop, so the code between two     *)
(* awaits is one atomic step.  Every action below is such a step.          *)
(***************************************************************************)
EXTENDS Integers, Sequences, FiniteSets, TLC

\* ---------------------------------------------------------------- bounds
\* operations (get_acc scopes, Scanner calls) begun in one behaviour
MaxOps == 2
\* the largest FloodWait duration (seconds) the server reports
MaxFlood == 1
\* the clock advances in unit steps up to MaxTime, and beyond it only by
\* jumping to the next pending deadline
MaxTime == 1
\* messages a chat history holds at most
MaxMsgs == 2
\* flood waits began 0, 10, .. 10 * MaxElapsed seconds before min_wait is called
MaxElapsed == 2
\* and last 30, 60, .. 30 * MaxTimeouts seconds
MaxTimeouts == 2
\* the largest limit get_chat_history is called with
MaxLimit == 1
\* message dates range over 0..MaxDate, min_date values over 1..MaxDate
MaxDate == 1

\* ------------------------------------------------------ program constants
\* collection.py:15   MAX_ACC_WAITING_TIME = 60 * 5
MAX_ACC_WAITING_TIME == 300
\* collection.py:209  a FloodWaitError that carries no seconds waits 60 s
DEFAULT_FLOOD_WAIT == 60
\* account.py:68      flood_wait_from = None
None == 0 - 1

\* ------------------------------------------------------------------ sets
Pools == {"p1", "p2"}
\* accounts: dict[str, Account], in insertion order
PhoneOrder(p) == IF p = "p1" THEN <<"A", "B">> ELSE <<"C">>
Range(s) == {s[i] : i \in 1..Len(s)}
AccountsOf(p) == Range(PhoneOrder(p))
Accounts == UNION {AccountsOf(p) : p \in Pools}
PoolOf(a) == CHOOSE p \in Pools : a \in AccountsOf(p)
\* tasks that use the pool p1 inside its session body
Callers == {"c1", "c2", "c3"}
\* the tasks that begin operations in the specifications of two callers
Clients == {"c1", "c2"}
CallerPool == "p1"
Policies == {"ignore", "raise", "revalidate"}
\* what a FloodWaitError carries: a number of seconds, or None
FloodValues == (0..MaxFlood) \cup {None}

VARIABLES
    \* BlobStore
    lock,        \* ".session_lock" exists
    blob,        \* [Accounts -> "none" | "valid" | "revoked" | "deactivated"]:
                 \* "<phone>.session"
    touches,     \* [Pools -> Nat]: fs.touch(SESSION_LOCK) calls made by the pool
    rms,         \* [Pools -> Nat]: fs.rm(SESSION_LOCK) calls made by the pool
    \* Account
    connected,   \* [Accounts -> BOOLEAN]: the client self.app runs
    spc,         \* [Accounts -> "none" | "saving" | "saved" | "stopped"]: where a
                 \* call of Account.stop stands
    started,     \* [Accounts -> BOOLEAN]
    fwFrom,      \* [Accounts -> Int]: flood_wait_from, None when unset
    fwTimeout,   \* [Accounts -> Int]: flood_wait_timeout
    \* AccountCollection
    invalid,     \* [Pools -> Policies]
    ppc,         \* [Pools -> ...]: where the pool's session() stands
    task,        \* [Accounts -> ...]: the start task of start_sessions
    stopping,    \* [Pools -> SUBSET Accounts]: stop() calls close_sessions awaits
    sessErr,     \* [Pools -> ...]: the exception session() raises
    errPhone,    \* [Pools -> ...]: AccountStartFailed.phone
    errCause,    \* [Pools -> ...]: AccountStartFailed.__cause__
    availQ,      \* [Pools -> queue id]: self.available_accs
    qItems,      \* Seq(Seq(Accounts)): the items of every asyncio.Queue made
    qGetters,    \* Seq(Seq(Callers)): the waiting getters of every queue
    timers,      \* Seq of flood_wait tasks [acc, timeout, wake, at]
    now,         \* the clock, in seconds
    \* callers
    cpc,         \* [Callers -> ...]: where the caller stands
    cacc,        \* [Callers -> ...]: the Account its get_acc scope holds
    cq,          \* [Callers -> queue id]: the queue its get() waits on
    cdeadline,   \* [Callers -> Int]: when its wait_for times out
    arrived,     \* Seq(Callers): the callers waiting in get(), in arrival order
    ready,       \* Seq(Callers): the woken getters, in the order the loop runs them
    cexit,       \* [Callers -> ...]: how the body of its last scope ended
    cexc,        \* [Callers -> ...]: the exception that left its last get_acc
    cAvailAt,    \* [Callers -> Int]: available_at of AllAccountsUnavailable
    cMinWait,    \* [Callers -> Seq(Int)]: what min_wait() returned to get_acc
    ops,         \* operations begun so far
    \* Scanner
    cop,         \* [Callers -> ...]: the operation the caller runs, or ran last
    cres,        \* [Callers -> ...]: what that operation gave its caller
    cn,          \* [Callers -> Nat]: messages get_chat_history has yielded
    climit,      \* [Callers -> Int]: limit of get_chat_history, or None
    cmin,        \* [Callers -> Int]: min_date of get_chat_history, or None
    cchat,       \* [Callers -> ChatIds]: chat_id of the call
    chist,       \* [Callers -> Seq(Int)]: the dates of the messages that
                 \* iter_messages delivers to get_chat_history, newest first
    cacheOn,     \* self.chat_cache is not None
    cacheChat,   \* chat_cache.cache: [Keys -> Int], the chat of the item at a
                 \* key, or None where the dict has no such key
    cacheCount,  \* members_count of the item of Chat, or None
    saves,       \* Nat: the calls of chat_cache.save() made
    \* tg.utils
    url,         \* the argument of a call of parse_telegram_message_url
    parsed,      \* what the call did: NotCalled, a result or an exception
    sarg,        \* the argument of a call of ensure_at_single
    sres,        \* what the call returned, NotCalled before it
    \* StatsCollector.collect_msg_stats
    histIds,     \* Seq(Int): msg.id of the messages of the channel's history,
                 \* newest first
    yielded      \* Seq([id, replies]): the Msg yielded so far

utilVars == <<url, parsed, sarg, sres>>
statVars == <<histIds, yielded>>
vars == <<lock, blob, touches, rms, connected, spc, started, fwFrom, fwTimeout, invalid, utilVars, statVars, ppc,
          task, stopping, sessErr, errPhone, errCause, availQ, qItems,
          qGetters, ready, timers, now, cpc, cacc, cq, cdeadline, arrived, cexit,
          cexc,
          cAvailAt, cMinWait, ops, cop, cres, cn, climit, cmin, cchat, chist, cacheOn,
          cacheChat, cacheCount, saves>>

blobVars == <<lock, blob, touches, rms>>
accVars == <<started, fwFrom, fwTimeout, connected, spc>>
poolVars == <<invalid, utilVars, statVars, ppc, task, stopping, sessErr, errPhone, errCause>>
queueVars == <<availQ, qItems, qGetters, ready>>
callerVars == <<cpc, cacc, cq, cdeadline, arrived, cexit, cexc, cAvailAt,
               cMinWait, ops>>
opVars == <<cop, cres, cn, climit, cmin, cchat, chist>>
cacheState == <<cacheOn, cacheChat, cacheCount>>
cacheVars == <<cacheState, saves>>
scanVars == <<opVars, cacheVars>>

\* ---------------------------------------------------------------- helpers
\* self.available_accs of pool p
available(p) == qItems[availQ[p]]

Count(s, x) == Cardinality({i \in 1..Len(s) : s[i] = x})

RECURSIVE SelectOrder(_, _)
\* the elements of the sequence s that are in the set S, in the order of s
SelectOrder(s, S) ==
    IF s = <<>> THEN <<>>
    ELSE (IF Head(s) \in S THEN <<Head(s)>> ELSE <<>>) \o SelectOrder(Tail(s), S)

RemoveAt(s, i) == SubSeq(s, 1, i - 1) \o SubSeq(s, i + 1, Len(s))
Without(s, x) == SelectSeq(s, LAMBDA y : y # x)
Min(S) == CHOOSE x \in S : \A y \in S : x <= y


\* ------------------------------------------------------------ asyncio.Queue
\* put_nowait of the items of the sequence as, one after another, on queue q:
\* every put appends the item and wakes the first waiting getter
\* (mutant) a queue that puts at the head, as asyncio.LifoQueue hands out
PutItemsAtHead(q, as) == [qItems EXCEPT ![q] = as \o @]

PutItems(q, as) == [qItems EXCEPT ![q] = @ \o as]
WokenBy(q, as) ==
    {qGetters[q][i] : i \in 1..(IF Len(as) < Len(qGetters[q])
                                THEN Len(as) ELSE Len(qGetters[q]))}
WakeOrder(q, as) ==
    SubSeq(qGetters[q], 1, IF Len(as) < Len(qGetters[q])
                           THEN Len(as) ELSE Len(qGetters[q]))
PutGetters(q, as) ==
    [qGetters EXCEPT ![q] = SelectSeq(@, LAMBDA c : c \notin WokenBy(q, as))]

\* ---------------------------------------------------------------- results
\* What an operation gives its caller: a value, an exception, or (for
\* get_chat_history) a stream of n messages that ends or raises.
NoResult == [kind |-> "none", what |-> "none", n |-> 0]
Return(what, n) == [kind |-> "return", what |-> what, n |-> n]
Raise(e) == [kind |-> "raise", what |-> e, n |-> 0]
Stream(what, n) == [kind |-> "stream", what |-> what, n |-> n]

\* ---------------------------------------------------------------- chat ids
\* A chat_id is a string, here the sequence of its characters.  Chat is the
\* chat_id of the calls that are not about the keys of chat_cache.
ChatIds == {<<"@", "X">>, <<"@", "x">>, <<"x">>, <<"X">>, <<"@", "y">>}
Chat == <<"@", "x">>

\* str.lower()
LowerChar(ch) == IF ch = "X" THEN "x" ELSE IF ch = "Y" THEN "y" ELSE ch
RECURSIVE Lower(_)
Lower(s) == IF s = <<>> THEN <<>> ELSE <<LowerChar(Head(s))>> \o Lower(Tail(s))

StartsWithAt(s) == s # <<>> /\ Head(s) = "@"

\* ensure_at_single without str.lower()
ensure_at_single_as_is(s) == IF StartsWithAt(s) THEN s ELSE <<"@">> \o s

\* (mutant) ensure_at_single that puts an "@" in front of every string
ensure_at_single_always(s) == <<"@">> \o Lower(s)

\* ensure_at_single(s), s a string
ensure_at_single(s) == IF StartsWithAt(s) THEN Lower(s) ELSE <<"@">> \o Lower(s)

\* The keys that chat_cache.cache can have, and the dict without keys
Keys == {ensure_at_single(id) : id \in ChatIds}
EmptyCache == [k \in Keys |-> None]

\* ChatCache.__contains__(id) and ChatCache.__getitem__(id).chat
Contains(id) == cacheChat[ensure_at_single(id)] # None
GetItem(id) == cacheChat[ensure_at_single(id)]

\* The entity that get_entity(chat_id) answers: Telegram resolves a username
\* with or without "@" and in any case to the same chat.
Resolve(id) ==
    LET name == Lower(IF StartsWithAt(id) THEN Tail(id) ELSE id)
    IN  IF name = <<"x">> THEN 1 ELSE 2

\* ------------------------------------------------------------------- Init
NotCalled == [kind |-> "none", exc |-> "none", chat |-> <<>>, msg |-> 0]
\* No Python object: the argument and the result before a call
NoValue == [type |-> "none", str |-> <<>>, int |-> 0]

\* No call of a function of tg.utils is under way
NoUtil ==
    /\ url = <<>>
    /\ parsed = NotCalled
    /\ sarg = NoValue
    /\ sres = NoValue

\* No call of collect_msg_stats is under way
NoStats ==
    /\ histIds = <<>>
    /\ yielded = <<>>

\* The pools, their queues and their callers before anything ran
InitPool ==
    /\ touches = [p \in Pools |-> 0]
    /\ rms = [p \in Pools |-> 0]
    /\ ppc = [p \in Pools |-> "new"]
    /\ task = [a \in Accounts |-> "none"]
    /\ stopping = [p \in Pools |-> {}]
    /\ sessErr = [p \in Pools |-> "none"]
    /\ errPhone = [p \in Pools |-> "none"]
    /\ errCause = [p \in Pools |-> "none"]
    /\ availQ = [p \in Pools |-> IF p = "p1" THEN 1 ELSE 2]
    /\ qItems = << <<>>, <<>> >>
    /\ qGetters = << <<>>, <<>> >>
    /\ ready = <<>>
    /\ arrived = <<>>
    /\ timers = <<>>
    /\ now = 0
    /\ cpc = [c \in Callers |-> "idle"]
    /\ cacc = [c \in Callers |-> "none"]
    /\ cq = [c \in Callers |-> 0]
    /\ cdeadline = [c \in Callers |-> None]
    /\ cexit = [c \in Callers |-> "none"]
    /\ cexc = [c \in Callers |-> "none"]
    /\ cAvailAt = [c \in Callers |-> None]
    /\ cMinWait = [c \in Callers |-> <<>>]
    /\ ops = 0
    /\ cop = [c \in Callers |-> "none"]
    /\ cres = [c \in Callers |-> NoResult]
    /\ cn = [c \in Callers |-> 0]
    /\ climit = [c \in Callers |-> None]
    /\ cmin = [c \in Callers |-> None]
    /\ chist = [c \in Callers |-> <<>>]
    /\ cchat = [c \in Callers |-> Chat]

\* What every initial state has in common, but for the Accounts' fields.
InitRest ==
    /\ InitPool
    /\ NoUtil
    /\ NoStats

InitCommon ==
    /\ started = [a \in Accounts |-> FALSE]
    /\ connected = [a \in Accounts |-> FALSE]
    /\ spc = [a \in Accounts |-> "none"]
    /\ fwFrom = [a \in Accounts |-> None]
    /\ fwTimeout = [a \in Accounts |-> 0]
    /\ InitRest

\* An AccountCollection has no chat_cache
NoCache ==
    /\ cacheOn = FALSE
    /\ cacheChat = EmptyCache
    /\ cacheCount = None
    /\ saves = 0

\* One pool, p1, just constructed.  The inputs: its policy, whether another
\* owner left a lock in BlobStore, and whether B has a session blob (A has).
Init ==
    /\ InitCommon
    /\ NoCache
    /\ lock \in BOOLEAN
    /\ blob \in {b \in [Accounts -> {"none", "valid"}] :
                   b["A"] = "valid" /\ b["C"] = "valid"}
    /\ invalid \in {i \in [Pools -> Policies] : i["p2"] = "ignore"}

\* The same pool with every combination of session blobs: absent, valid, or
\* rejected by the server (AuthKeyUnregistered, UserDeactivated).
InitStart ==
    /\ InitCommon
    /\ NoCache
    /\ lock \in BOOLEAN
    /\ blob \in {b \in [Accounts -> {"none", "valid", "revoked"}] : b["C"] = "valid"}
    /\ invalid \in {i \in [Pools -> Policies] : i["p2"] = "ignore"}

\* ------------------------------------------------------------ Account.start
\* The result of Account.start: "ok", or the exception it raises.
\* setupOk: whether setup_new_session (send_code, sign_in) goes through.
\* (mutant) Account.start that never calls setup_new_session
StartOutcomeRaise(b, revalidate, setupOk) ==
    IF b = "none" THEN "NoSessionFile"
    ELSE IF b = "valid" THEN "ok"
    ELSE IF b = "revoked" THEN "AuthKeyUnregistered" ELSE "UserDeactivated"

StartOutcome(b, revalidate, setupOk) ==
    IF b # "none"
    THEN IF b = "valid" THEN "ok"
         ELSE IF revalidate
              THEN (IF setupOk THEN "ok" ELSE "SetupError")
              ELSE (IF b = "revoked" THEN "AuthKeyUnregistered" ELSE "UserDeactivated")
    ELSE IF revalidate
         THEN (IF setupOk THEN "ok" ELSE "SetupError")
         ELSE "NoSessionFile"

\* A start task of start_sessions runs Account.start to its end.
StartTask(a) ==
    /\ task[a] = "pending"
    /\ \E setupOk \in BOOLEAN :
        LET r == StartOutcome(blob[a], invalid[PoolOf(a)] = "revalidate", setupOk) IN
        /\ task' = [task EXCEPT ![a] = r]
        /\ IF r = "ok"
           THEN /\ started' = [started EXCEPT ![a] = TRUE]
                /\ connected' = [connected EXCEPT ![a] = TRUE]
                /\ UNCHANGED spc
                /\ fwTimeout' = [fwTimeout EXCEPT ![a] = 0]
                /\ fwFrom' = [fwFrom EXCEPT ![a] = None]
           ELSE UNCHANGED accVars
    /\ UNCHANGED <<blobVars, invalid, utilVars, statVars, ppc, stopping, sessErr, errPhone, errCause,
                   queueVars, timers, now, callerVars, scanVars>>

\* ------------------------------------------------------------- Account.stop
\* One stop() call of close_sessions' gather runs to its end: the session
\* string is written to the blob, the client disconnected, started cleared.
StopAccount(a) ==
    /\ a \in stopping[PoolOf(a)]
    /\ stopping' = [stopping EXCEPT ![PoolOf(a)] = @ \ {a}]
    /\ IF started[a]
       THEN /\ blob' = [blob EXCEPT ![a] = "valid"]
            /\ connected' = [connected EXCEPT ![a] = FALSE]
            /\ started' = [started EXCEPT ![a] = FALSE]
       ELSE UNCHANGED <<blob, connected, started>>
    /\ UNCHANGED <<lock, touches, rms, fwFrom, fwTimeout, spc, invalid, utilVars, statVars, ppc, task,
                   sessErr, errPhone, errCause, queueVars, timers, now, callerVars, scanVars>>

\* Account.stop, step by step.  otherVars: what no step of stop touches.
stopFrame == <<lock, touches, rms, fwFrom, fwTimeout, invalid, utilVars, statVars, poolVars,
               queueVars, timers, now, cpc, cacc, cq, cdeadline, arrived, cexit,
               cexc, cAvailAt, cMinWait, scanVars>>

\* (mutant) stop() without "if not self.started: return"
StopCallAlways(a) ==
    /\ spc[a] = "none"
    /\ ops < MaxOps
    /\ ops' = ops + 1
    /\ spc' = [spc EXCEPT ![a] = "saving"]
    /\ UNCHANGED <<blob, connected, started, stopFrame>>

\* stop() is called: it returns at once when the Account is not started,
\* and otherwise awaits save_session_string.
StopCall(a) ==
    /\ spc[a] = "none"
    /\ ops < MaxOps
    /\ ops' = ops + 1
    /\ IF ~started[a]
       THEN UNCHANGED spc
       ELSE spc' = [spc EXCEPT ![a] = "saving"]
    /\ UNCHANGED <<blob, connected, started, stopFrame>>

\* save_session_string: the exported session string is written to the blob.
StopSave(a) ==
    /\ spc[a] = "saving"
    /\ blob' = [blob EXCEPT ![a] = "valid"]
    /\ spc' = [spc EXCEPT ![a] = "saved"]
    /\ UNCHANGED <<connected, started, ops, stopFrame>>

\* "await self.app.stop()": the client is disconnected.
StopDisconnect(a) ==
    /\ spc[a] = "saved"
    /\ connected' = [connected EXCEPT ![a] = FALSE]
    /\ spc' = [spc EXCEPT ![a] = "stopped"]
    /\ UNCHANGED <<blob, started, ops, stopFrame>>

\* "self.started = False", and stop() returns.
StopFinish(a) ==
    /\ spc[a] = "stopped"
    /\ started' = [started EXCEPT ![a] = FALSE]
    /\ spc' = [spc EXCEPT ![a] = "none"]
    /\ UNCHANGED <<blob, connected, ops, stopFrame>>


\* ------------------------------------------------ AccountCollection.session
\* (mutant) setup_available_queue that forgets the "if acc.started" test
SetupAvailableQueueAll(p) == PhoneOrder(p)

\* The Accounts setup_available_queue enqueues: the started ones, in dict order.
SetupAvailableQueue(p) ==
    SelectOrder(PhoneOrder(p), {a \in AccountsOf(p) : started[a]})

\* (mutant) the loop over the tasks without suppress(InvalidStateError): a task
\* that is still pending counts as failed
FailedTasksOrPending(p) ==
    SelectOrder(PhoneOrder(p), {a \in AccountsOf(p) : task[a] \notin {"none", "ok"}})

\* The start tasks that ended with an exception, in dict order.
FailedTasks(p) ==
    SelectOrder(PhoneOrder(p),
                {a \in AccountsOf(p) : task[a] \notin {"none", "pending", "ok"}})

\* asyncio.wait(tasks, return_when): ALL_COMPLETED under "ignore",
\* FIRST_EXCEPTION otherwise.
WaitOver(p) ==
    \/ \A a \in AccountsOf(p) : task[a] # "pending"
    \/ /\ invalid[p] # "ignore"
       /\ FailedTasks(p) # <<>>

\* The finally clause of session(): fs.rm(SESSION_LOCK), then close_sessions
\* gathers stop() of every Account that is started now.
\* err: the exception that is on its way out of session(), or "none".
\* When no Account is started the gather is empty and done at once, and
\* close_sessions runs to its end without a suspension.
\* (mutant) Scanner.session with the save after the "async with" instead of
\* in a finally clause
SaveChatCacheNoFinally(p, err) ==
    saves' = IF cacheOn /\ err = "none" THEN saves + 1 ELSE saves

\* The finally clause of Scanner.session, which runs as the pool's session()
\* is left, with the exception err or with none: chat_cache.save(), if there
\* is a chat_cache.
SaveChatCache(p, err) ==
    saves' = IF cacheOn THEN saves + 1 ELSE saves

Finally(p, err, phone, cause) ==
    LET toStop == {a \in AccountsOf(p) : started[a]} IN
    /\ lock' = FALSE
    /\ rms' = [rms EXCEPT ![p] = @ + 1]
    /\ stopping' = [stopping EXCEPT ![p] = toStop]
    /\ IF toStop = {}
       THEN /\ qItems' = Append(qItems, <<>>)
            /\ qGetters' = Append(qGetters, <<>>)
            /\ availQ' = [availQ EXCEPT ![p] = Len(qItems) + 1]
            /\ ppc' = [ppc EXCEPT ![p] = "closed"]
            /\ SaveChatCache(p, err)
       ELSE /\ ppc' = [ppc EXCEPT ![p] = "closing"]
            /\ UNCHANGED <<availQ, qItems, qGetters, saves>>
    /\ sessErr' = [sessErr EXCEPT ![p] = err]
    /\ errPhone' = [errPhone EXCEPT ![p] = phone]
    /\ errCause' = [errCause EXCEPT ![p] = cause]

\* (mutant) session() with the lock check inside the try block, so that the
\* finally clause also runs when the sessions are in use
SessionEnterCheckInTry(p) ==
    /\ ppc[p] = "new"
    /\ IF lock
       THEN /\ Finally(p, "SessionsInUse", "none", "none")
            /\ UNCHANGED task
       ELSE /\ ppc' = [ppc EXCEPT ![p] = "starting"]
            /\ task' = [a \in Accounts |->
                          IF a \in AccountsOf(p) THEN "pending" ELSE task[a]]
            /\ UNCHANGED <<lock, rms, stopping, sessErr, errPhone, errCause,
                           availQ, qItems, qGetters, saves>>
    /\ UNCHANGED <<blob, touches, accVars, invalid, utilVars, statVars, ready, timers, now,
                   callerVars, opVars, cacheState>>

\* session() up to its first await: the lock check, then start_sessions
\* creates one start task per Account.
SessionEnter(p) ==
    /\ ppc[p] = "new"
    /\ IF lock
       THEN /\ ppc' = [ppc EXCEPT ![p] = "refused"]
            /\ sessErr' = [sessErr EXCEPT ![p] = "SessionsInUse"]
            /\ SaveChatCache(p, "SessionsInUse")
            /\ UNCHANGED task
       ELSE /\ ppc' = [ppc EXCEPT ![p] = "starting"]
            /\ task' = [a \in Accounts |->
                          IF a \in AccountsOf(p) THEN "pending" ELSE task[a]]
            /\ UNCHANGED <<sessErr, saves>>
    /\ UNCHANGED <<blobVars, accVars, invalid, utilVars, statVars, stopping, errPhone, errCause,
                   queueVars, timers, now, callerVars, opVars, cacheState>>

\* start_sessions after its wait, and session() up to the yield (or, when
\* start_sessions raises, up to the await in close_sessions).
\* (mutant) start_sessions without its icontract postcondition
AnyStartedUnchecked(p) == TRUE

\* The postcondition of start_sessions:
\* any(acc.started for acc in self.accounts.values())
AnyStarted(p) == \E a \in AccountsOf(p) : started[a]

StartSessionsReturn(p) ==
    /\ ppc[p] = "starting"
    /\ WaitOver(p)
    /\ IF invalid[p] # "ignore" /\ FailedTasks(p) # <<>>
       THEN \* raise AccountStartFailed(phone) from exc
            /\ Finally(p, "AccountStartFailed", Head(FailedTasks(p)),
                       task[Head(FailedTasks(p))])
            /\ UNCHANGED <<blob, touches, ready, cpc>>
       ELSE LET new == SetupAvailableQueue(p) IN
            /\ UNCHANGED blob
            /\ IF AnyStarted(p)
               THEN /\ qItems' = PutItems(availQ[p], new)
                    /\ qGetters' = PutGetters(availQ[p], new)
                    /\ ready' = ready \o WakeOrder(availQ[p], new)
                    /\ cpc' = [c \in Callers |->
                                 IF c \in WokenBy(availQ[p], new)
                                 THEN "woken" ELSE cpc[c]]
                    /\ UNCHANGED availQ
                    /\ lock' = TRUE
                    /\ touches' = [touches EXCEPT ![p] = @ + 1]
                    /\ ppc' = [ppc EXCEPT ![p] = "body"]
                    /\ UNCHANGED <<rms, stopping, sessErr, errPhone, errCause,
                                   saves>>
               ELSE \* setup_available_queue puts nothing; icontract.ensure:
                    \* "No valid accounts were started"
                    /\ Finally(p, "ViolationError", "none", "none")
                    /\ UNCHANGED <<touches, ready, cpc>>
    /\ UNCHANGED <<accVars, invalid, utilVars, statVars, task, timers, now, cacc, cq, cdeadline, arrived,
                   cexit, cexc, cAvailAt, cMinWait, ops, opVars, cacheState>>

\* (mutant) session() with the clean-up after the yield instead of in a
\* finally clause: an exception in the body skips it
BodyExitNoFinally(p, err) ==
    /\ ppc[p] = "body"
    /\ IF err = "none"
       THEN Finally(p, err, "none", "none")
       ELSE /\ ppc' = [ppc EXCEPT ![p] = "closed"]
            /\ sessErr' = [sessErr EXCEPT ![p] = err]
            /\ SaveChatCache(p, err)
            /\ UNCHANGED <<lock, rms, stopping, errPhone, errCause, availQ,
                           qItems, qGetters>>
    /\ UNCHANGED <<blob, touches, accVars, invalid, utilVars, statVars, task, ready, timers, now,
                   callerVars, opVars, cacheState>>

\* The body of the session ends, normally or with an exception.
BodyExit(p, err) ==
    /\ ppc[p] = "body"
    /\ Finally(p, err, "none", "none")
    /\ UNCHANGED <<blob, touches, accVars, invalid, utilVars, statVars, task, ready, timers, now,
                   callerVars, opVars, cacheState>>

\* close_sessions after its gather: a new, empty queue replaces available_accs.
\* Then session() is left.
CloseSessionsReturn(p) ==
    /\ ppc[p] = "closing"
    /\ stopping[p] = {}
    /\ qItems' = Append(qItems, <<>>)
    /\ qGetters' = Append(qGetters, <<>>)
    /\ UNCHANGED ready
    /\ availQ' = [availQ EXCEPT ![p] = Len(qItems) + 1]
    /\ ppc' = [ppc EXCEPT ![p] = "closed"]
    /\ SaveChatCache(p, sessErr[p])
    /\ UNCHANGED <<blobVars, accVars, invalid, utilVars, statVars, task, stopping, sessErr, errPhone,
                   errCause, timers, now, callerVars, opVars, cacheState>>


\* ---------------------------------------------- AccountCollection.min_wait
\* (mutant) min_wait that takes no account of the time elapsed
RemainingFull(p) ==
    {fwTimeout[a] : a \in {x \in AccountsOf(p) : fwFrom[x] # None}}

\* The remaining flood-wait time of every Account with flood_wait_from set.
Remaining(p) ==
    {fwTimeout[a] - (now - fwFrom[a]) : a \in {x \in AccountsOf(p) : fwFrom[x] # None}}

\* min_wait(): <<>> for None, <<m>> for the minimum m.
MinWait(p) == IF Remaining(p) = {} THEN <<>> ELSE <<Min(Remaining(p))>>

\* (mutant) available_at reported whenever min_wait() is not None
AvailableAtNoSign(p) ==
    IF MinWait(p) # <<>> THEN now + MinWait(p)[1] ELSE None

\* available_at of the error get_acc raises on a timeout:
\* now + min_wait "if min_wait and min_wait > 0", None for the plain timeout.
AvailableAt(p) ==
    IF MinWait(p) # <<>> /\ MinWait(p)[1] > 0 THEN now + MinWait(p)[1] ELSE None

\* ----------------------------------------------- AccountCollection.get_acc
\* The caller's get() finds an item: the scope is entered with the head.
TakeHead(c, q) ==
    /\ qItems' = [qItems EXCEPT ![q] = Tail(@)]
    /\ cacc' = [cacc EXCEPT ![c] = Head(qItems[q])]
    /\ cpc' = [cpc EXCEPT ![c] = "holding"]
    /\ cq' = [cq EXCEPT ![c] = 0]
    /\ cdeadline' = [cdeadline EXCEPT ![c] = None]
    /\ arrived' = Without(arrived, c)

\* get_acc is entered: wait_for(self.available_accs.get(), MAX_ACC_WAITING_TIME).
\* get() returns at once when the queue holds an item, and queues a getter
\* otherwise.
EnterGetAcc(c) ==
    /\ cexit' = [cexit EXCEPT ![c] = "none"]
    /\ cexc' = [cexc EXCEPT ![c] = "none"]
    /\ cAvailAt' = [cAvailAt EXCEPT ![c] = None]
    /\ cMinWait' = [cMinWait EXCEPT ![c] = <<>>]
    /\ cres' = [cres EXCEPT ![c] = NoResult]
    /\ IF available(CallerPool) # <<>>
       THEN /\ TakeHead(c, availQ[CallerPool])
            /\ UNCHANGED qGetters
       ELSE /\ qGetters' = [qGetters EXCEPT ![availQ[CallerPool]] = Append(@, c)]
            /\ cpc' = [cpc EXCEPT ![c] = "waiting"]
            /\ cq' = [cq EXCEPT ![c] = availQ[CallerPool]]
            /\ cdeadline' = [cdeadline EXCEPT ![c] = now + MAX_ACC_WAITING_TIME]
            /\ arrived' = Append(arrived, c)
            /\ UNCHANGED <<qItems, cacc>>
    /\ UNCHANGED ready
    /\ UNCHANGED <<blobVars, accVars, poolVars, availQ, timers, now>>

\* An operation is begun by a task of the session body.
Begin(c, op, id, limit, min, hist) ==
    /\ cpc[c] = "idle"
    /\ ppc[CallerPool] = "body"
    /\ ops < MaxOps
    /\ ops' = ops + 1
    /\ cop' = [cop EXCEPT ![c] = op]
    /\ cn' = [cn EXCEPT ![c] = 0]
    /\ climit' = [climit EXCEPT ![c] = limit]
    /\ cmin' = [cmin EXCEPT ![c] = min]
    /\ chist' = [chist EXCEPT ![c] = hist]
    /\ cchat' = [cchat EXCEPT ![c] = id]

\* "async with self.get_acc() as acc" in code of the session body.
GetAcc(c) ==
    /\ Begin(c, "get_acc", Chat, None, None, <<>>)
    /\ EnterGetAcc(c)
    /\ UNCHANGED cacheVars

\* A getter that a put woke runs again: get() loops on "while self.empty()",
\* so it takes the head, or queues a new getter at the tail when another
\* caller emptied the queue in between.
GetterResume(c) ==
    /\ cpc[c] = "woken"
    /\ ready # <<>> /\ c = Head(ready)
    /\ ready' = Tail(ready)
    /\ IF qItems[cq[c]] # <<>>
       THEN /\ TakeHead(c, cq[c])
            /\ UNCHANGED qGetters
       ELSE /\ qGetters' = [qGetters EXCEPT ![cq[c]] = Append(@, c)]
            /\ cpc' = [cpc EXCEPT ![c] = "waiting"]
            /\ UNCHANGED <<qItems, cacc, cq, cdeadline, arrived>>
    /\ UNCHANGED <<blobVars, accVars, poolVars, availQ, timers, now, cexit,
                   cexc, cAvailAt, cMinWait, ops, scanVars>>

\* ---------------------------------------------------------------- Scanner
\* What the operation op gives its caller when its get_acc scope ends.
\* exit: how the scope ended ("normal", "FloodWait", "Exception": the body
\* raised e, "timeout": get_acc raised before yielding); n: the number the
\* server answered, or the messages yielded; cache: chat_cache is in use.
OpResult(op, exit, e, n, cache) ==
    CASE op = "get_acc" ->
            \* the code after the scope runs unless an exception left the scope
            IF exit \in {"normal", "FloodWait"} THEN NoResult ELSE Raise(e)
      [] op = "get_chat" ->
            \* FloodWait: "return await ..." never returns, the function
            \* ends (None); with the cache, "chat" is unbound after the scope
            IF exit = "normal" THEN Return("entity", n)
            ELSE IF exit = "FloodWait"
                 THEN (IF cache THEN Raise("UnboundLocalError") ELSE Return("None", 0))
                 ELSE Raise(e)
      [] op = "get_chat_members_count" ->
            IF exit = "normal" THEN Return("int", n)
            ELSE IF exit = "FloodWait" THEN Return("None", 0)
                 ELSE Raise(e)
      [] op = "get_discussion_replies_count" ->
            \* every "except" clause returns 0; after a FloodWait the
            \* function ends without a return
            IF exit = "normal" THEN Return("int", n)
            ELSE IF exit = "FloodWait" THEN Return("None", 0)
                 ELSE IF exit = "Cancelled" THEN Raise(e)
                      ELSE Return("int", 0)
      [] op = "get_chat_history" ->
            IF exit \in {"normal", "FloodWait"} THEN Stream("end", n) ELSE Stream(e, n)
      [] op = "get_discussion_replies" ->
            \* every "except" clause ends the stream with a plain return
            IF exit = "Cancelled" THEN Stream(e, n) ELSE Stream("end", n)

\* The numbers the server may answer to the operation of c: a count, or the
\* entity that chat_id resolves to.
Answers(c) ==
    IF cop[c] \in {"get_chat_members_count", "get_discussion_replies_count"}
    THEN 0..MaxMsgs
    ELSE IF cop[c] = "get_chat" THEN {Resolve(cchat[c])} ELSE {0}

\* What the operation of c does to chat_cache when its scope ends with the
\* answer n: get_chat stores a new ChatCacheItem (members_count None) under
\* the normalized chat_id, get_chat_members_count sets members_count.
CacheAfter(c, exit, n) ==
    IF ~cacheOn THEN UNCHANGED cacheVars
    ELSE /\ UNCHANGED <<cacheOn, saves>>
         /\ cacheChat' =
                IF cop[c] = "get_chat" /\ exit = "normal"
                THEN [cacheChat EXCEPT ![ensure_at_single(cchat[c])] = n]
                ELSE cacheChat
         /\ cacheCount' =
                IF cop[c] = "get_chat_members_count" /\ exit \in {"normal", "FloodWait"}
                THEN (IF exit = "normal" THEN n ELSE None)
                ELSE IF /\ cop[c] = "get_chat" /\ exit = "normal"
                        /\ ensure_at_single(cchat[c]) = ensure_at_single(Chat)
                     THEN None
                     ELSE cacheCount

\* The operation of caller c ends together with its scope.
Finish(c, exit, e, n) ==
    /\ cres' = [cres EXCEPT ![c] =
                    OpResult(cop[c], exit, e,
                             IF cop[c] \in {"get_chat_history", "get_discussion_replies"}
                             THEN cn[c] ELSE n,
                             cacheOn)]
    /\ CacheAfter(c, exit, n)
    /\ UNCHANGED <<cop, cn, climit, cmin, cchat, chist>>

\* Whether the body of c's scope may make another request to the server:
\* a stream makes none once limit messages were yielded.
MayRequest(c) ==
    cop[c] \in {"get_chat_history", "get_discussion_replies"} =>
        (climit[c] = None \/ cn[c] < climit[c])

\* get_chat(chat_id): the cached entity, or one get_entity in a scope.
GetChat(c, id) ==
    /\ Begin(c, "get_chat", id, None, None, <<>>)
    /\ IF cacheOn /\ Contains(id)
       THEN /\ cres' = [cres EXCEPT ![c] = Return("entity", GetItem(id))]
            /\ cexit' = [cexit EXCEPT ![c] = "noscope"]
            /\ cexc' = [cexc EXCEPT ![c] = "none"]
            /\ UNCHANGED <<blobVars, accVars, poolVars, queueVars, timers, now,
                           cpc, cacc, cq, cdeadline, arrived, cAvailAt, cMinWait>>
       ELSE EnterGetAcc(c)
    /\ UNCHANGED cacheVars

\* get_chat_members_count(chat_id): with the cache, self.chat_cache[chat_id]
\* first (KeyError when the chat is not cached), and the request only when the
\* item's members_count is None or 0.
GetChatMembersCount(c) ==
    /\ Begin(c, "get_chat_members_count", Chat, None, None, <<>>)
    /\ IF cacheOn /\ ~Contains(Chat)
       THEN /\ cres' = [cres EXCEPT ![c] = Raise("KeyError")]
            /\ cexit' = [cexit EXCEPT ![c] = "noscope"]
            /\ cexc' = [cexc EXCEPT ![c] = "none"]
            /\ UNCHANGED <<blobVars, accVars, poolVars, queueVars, timers, now,
                           cpc, cacc, cq, cdeadline, arrived, cAvailAt, cMinWait>>
       ELSE IF cacheOn /\ cacheCount # None /\ cacheCount # 0
            THEN /\ cres' = [cres EXCEPT ![c] = Return("int", cacheCount)]
                 /\ cexit' = [cexit EXCEPT ![c] = "noscope"]
                 /\ cexc' = [cexc EXCEPT ![c] = "none"]
                 /\ UNCHANGED <<blobVars, accVars, poolVars, queueVars, timers,
                                now, cpc, cacc, cq, cdeadline, arrived, cAvailAt, cMinWait>>
            ELSE EnterGetAcc(c)
    /\ UNCHANGED cacheVars

\* The "basic validation" without the test of chat_id.
ValidMsgOnly(id, msg) == ~(msg = None \/ msg = 0 \/ msg <= 0)

\* The "basic validation" of get_discussion_replies_count and
\* get_discussion_replies: "not msg_id or msg_id <= 0" and "not chat_id" both
\* fail (None and 0 are falsy, and so is the empty string).
Valid(id, msg) ==
    /\ ~(msg = None \/ msg = 0 \/ msg <= 0)
    /\ ~(id = <<>>)

\* get_discussion_replies_count(chat_id, msg_id)
GetDiscussionRepliesCount(c, id, msg) ==
    /\ Begin(c, "get_discussion_replies_count", id, None, None, <<>>)
    /\ IF ~Valid(id, msg)
       THEN /\ cres' = [cres EXCEPT ![c] = Return("int", 0)]
            /\ cexit' = [cexit EXCEPT ![c] = "noscope"]
            /\ cexc' = [cexc EXCEPT ![c] = "none"]
            /\ UNCHANGED <<blobVars, accVars, poolVars, queueVars, timers, now,
                           cpc, cacc, cq, cdeadline, arrived, cAvailAt, cMinWait>>
       ELSE EnterGetAcc(c)
    /\ UNCHANGED cacheVars

\* get_discussion_replies(chat_id, msg_id, limit) is iterated for the first
\* time.
GetDiscussionReplies(c, id, msg, limit) ==
    /\ Begin(c, "get_discussion_replies", id, limit, None, <<>>)
    /\ IF ~Valid(id, msg)
       THEN /\ cres' = [cres EXCEPT ![c] = Stream("end", 0)]
            /\ cexit' = [cexit EXCEPT ![c] = "noscope"]
            /\ cexc' = [cexc EXCEPT ![c] = "none"]
            /\ UNCHANGED <<blobVars, accVars, poolVars, queueVars, timers, now,
                           cpc, cacc, cq, cdeadline, arrived, cAvailAt, cMinWait>>
       ELSE EnterGetAcc(c)
    /\ UNCHANGED cacheVars

\* get_discussion_replies yields the next reply: iter_messages gave one more,
\* which it does for at most limit messages.
RepliesYield(c) ==
    /\ cpc[c] = "holding"
    /\ cop[c] = "get_discussion_replies"
    /\ cn[c] < MaxMsgs
    /\ MayRequest(c)
    /\ cn' = [cn EXCEPT ![c] = @ + 1]
    /\ UNCHANGED <<blobVars, accVars, poolVars, queueVars, timers, now,
                   callerVars, cop, cres, climit, cmin, cchat, chist,
                   cacheVars>>

\* get_chat_history(chat_id, limit, min_date) is iterated for the first
\* time; hist: the dates of the messages of the chat, newest first, as
\* iter_messages delivers them (UTC, made naive by replace(tzinfo=None)).
GetChatHistory(c, limit, min, hist) ==
    /\ Begin(c, "get_chat_history", Chat, limit, min, hist)
    /\ EnterGetAcc(c)
    /\ UNCHANGED cacheVars

\* The loop of get_chat_history without the min_date test.
HistoryDoneNoMinDate(c) ==
    cn[c] >= Len(chist[c]) \/ ~MayRequest(c)

\* The loop of get_chat_history is over: iter_messages is exhausted, or limit
\* messages were yielded, or the next message is older than min_date.
HistoryDone(c) ==
    IF cn[c] >= Len(chist[c]) \/ ~MayRequest(c)
    THEN TRUE
    ELSE cmin[c] # None /\ chist[c][cn[c] + 1] < cmin[c]

\* get_chat_history yields the next message: there is one, the limit is not
\* reached and the message is not older than min_date.
HistoryYield(c) ==
    /\ cpc[c] = "holding"
    /\ cop[c] = "get_chat_history"
    /\ ~HistoryDone(c)
    /\ cn' = [cn EXCEPT ![c] = @ + 1]
    /\ UNCHANGED <<blobVars, accVars, poolVars, queueVars, timers, now,
                   callerVars, cop, cres, climit, cmin, cchat, chist,
                   cacheVars>>

\* ------------------------------------------------------ get_acc, scope exit
\* wait_for times out: the getter is cancelled and get_acc raises
\* RuntimeError("All accounts unavailable ...") without yielding.
GetAccTimeout(c) ==
    /\ cpc[c] = "waiting"
    /\ now >= cdeadline[c]
    /\ qGetters' = [qGetters EXCEPT ![cq[c]] = Without(@, c)]
    /\ cpc' = [cpc EXCEPT ![c] = "idle"]
    /\ cexc' = [cexc EXCEPT ![c] = "AllAccountsUnavailable"]
    /\ cAvailAt' = [cAvailAt EXCEPT ![c] = AvailableAt(CallerPool)]
    /\ cMinWait' = [cMinWait EXCEPT ![c] = MinWait(CallerPool)]
    /\ cq' = [cq EXCEPT ![c] = 0]
    /\ cdeadline' = [cdeadline EXCEPT ![c] = None]
    /\ arrived' = Without(arrived, c)
    /\ cexit' = [cexit EXCEPT ![c] = "timeout"]
    /\ Finish(c, "timeout", "AllAccountsUnavailable", 0)
    /\ UNCHANGED <<blobVars, accVars, poolVars, availQ, qItems, ready, timers,
                   now, cacc, ops>>

\* self.available_accs.put_nowait(acc) by caller c, who leaves its scope
PutBack(c) ==
    LET q == availQ[CallerPool] IN
    /\ qItems' = PutItems(q, <<cacc[c]>>)
    /\ qGetters' = PutGetters(q, <<cacc[c]>>)
    /\ ready' = ready \o WakeOrder(q, <<cacc[c]>>)
    /\ cpc' = [x \in Callers |->
                 IF x = c THEN "idle"
                 ELSE IF x \in WokenBy(q, <<cacc[c]>>) THEN "woken" ELSE cpc[x]]
    /\ cacc' = [cacc EXCEPT ![c] = "none"]

\* (mutant) get_acc that does not put the Account back on a normal exit
ExitNormalNoPut(c) ==
    /\ cpc[c] = "holding"
    /\ cop[c] = "get_chat_history" => HistoryDone(c)
    /\ cpc' = [cpc EXCEPT ![c] = "idle"]
    /\ cacc' = [cacc EXCEPT ![c] = "none"]
    /\ cexit' = [cexit EXCEPT ![c] = "normal"]
    /\ cexc' = [cexc EXCEPT ![c] = "none"]
    /\ \E n \in Answers(c) : Finish(c, "normal", "none", n)
    /\ UNCHANGED <<blobVars, accVars, poolVars, queueVars, timers, now, cq,
                   cdeadline, arrived, cAvailAt, cMinWait, ops>>

\* The body of the scope returns: the Account goes back to the tail.
ExitNormal(c) ==
    /\ cpc[c] = "holding"
    /\ cop[c] = "get_chat_history" => HistoryDone(c)
    /\ PutBack(c)
    /\ cexit' = [cexit EXCEPT ![c] = "normal"]
    /\ cexc' = [cexc EXCEPT ![c] = "none"]
    /\ \E n \in Answers(c) : Finish(c, "normal", "none", n)
    /\ UNCHANGED <<blobVars, accVars, poolVars, availQ, timers, now, cq,
                   cdeadline, arrived, cAvailAt, cMinWait, ops>>

\* timeout_seconds of a FloodWaitError carrying v
FloodSeconds(v) == IF v = None THEN DEFAULT_FLOOD_WAIT ELSE v

\* (mutant) get_acc that raises the FloodWaitError again after creating the
\* flood_wait task
ExitFloodReraise(c, v) ==
    /\ cpc[c] = "holding"
    /\ MayRequest(c)
    /\ timers' = Append(timers, [acc |-> cacc[c], timeout |-> FloodSeconds(v),
                                 wake |-> None, at |-> now])
    /\ cpc' = [cpc EXCEPT ![c] = "idle"]
    /\ cacc' = [cacc EXCEPT ![c] = "none"]
    /\ cexit' = [cexit EXCEPT ![c] = "FloodWait"]
    /\ cexc' = [cexc EXCEPT ![c] = "FloodWait"]
    /\ Finish(c, "Exception", "FloodWait", 0)
    /\ UNCHANGED <<blobVars, accVars, poolVars, queueVars, now, cq, cdeadline, arrived,
                   cAvailAt, cMinWait, ops>>

\* The body raises FloodWaitError: the Account is not put back, a flood_wait
\* task is created for it, and the exception ends here.
ExitFlood(c, v) ==
    /\ cpc[c] = "holding"
    /\ MayRequest(c)
    /\ timers' = Append(timers, [acc |-> cacc[c], timeout |-> FloodSeconds(v),
                                 wake |-> None, at |-> now])
    /\ cpc' = [cpc EXCEPT ![c] = "idle"]
    /\ cacc' = [cacc EXCEPT ![c] = "none"]
    /\ cexit' = [cexit EXCEPT ![c] = "FloodWait"]
    /\ cexc' = [cexc EXCEPT ![c] = "none"]
    /\ Finish(c, "FloodWait", "none", 0)
    /\ UNCHANGED <<blobVars, accVars, poolVars, queueVars, now, cq, cdeadline, arrived,
                   cAvailAt, cMinWait, ops>>

\* (mutant) get_acc whose "except Exception" clause raises again without
\* putting the Account back
ExitErrorNoPut(c, e) ==
    /\ cpc[c] = "holding"
    /\ MayRequest(c)
    /\ cpc' = [cpc EXCEPT ![c] = "idle"]
    /\ cacc' = [cacc EXCEPT ![c] = "none"]
    /\ cexit' = [cexit EXCEPT ![c] = "Exception"]
    /\ cexc' = [cexc EXCEPT ![c] = e]
    /\ Finish(c, "Exception", e, 0)
    /\ UNCHANGED <<blobVars, accVars, poolVars, queueVars, timers, now, cq,
                   cdeadline, arrived, cAvailAt, cMinWait, ops>>

\* The body raises another exception, e: the Account goes back to the tail
\* and the exception is raised again.
ExitError(c, e) ==
    /\ cpc[c] = "holding"
    /\ MayRequest(c)
    /\ PutBack(c)
    /\ cexit' = [cexit EXCEPT ![c] = "Exception"]
    /\ cexc' = [cexc EXCEPT ![c] = e]
    /\ Finish(c, "Exception", e, 0)
    /\ UNCHANGED <<blobVars, accVars, poolVars, availQ, timers, now, cq,
                   cdeadline, arrived, cAvailAt, cMinWait, ops>>

\* The task of caller c is cancelled: CancelledError is raised at its await.
\* In the scope it is raised at "yield acc", and neither "except
\* FloodWaitError" nor "except Exception" catches it (CancelledError derives
\* from BaseException): nothing is put back.  In get() the getter is
\* cancelled and removed; a getter that a put had already woken leaves the
\* item in the queue and wakes the next getter.
Cancel(c) ==
    /\ cpc[c] \in {"holding", "waiting", "woken"}
    /\ cexit' = [cexit EXCEPT ![c] = "Cancelled"]
    /\ cexc' = [cexc EXCEPT ![c] = "CancelledError"]
    /\ cacc' = [cacc EXCEPT ![c] = "none"]
    /\ cq' = [cq EXCEPT ![c] = 0]
    /\ cdeadline' = [cdeadline EXCEPT ![c] = None]
    /\ arrived' = Without(arrived, c)
    /\ CASE cpc[c] = "holding" ->
              /\ cpc' = [cpc EXCEPT ![c] = "idle"]
              /\ UNCHANGED <<qGetters, ready>>
         [] cpc[c] = "waiting" ->
              /\ cpc' = [cpc EXCEPT ![c] = "idle"]
              /\ qGetters' = [qGetters EXCEPT ![cq[c]] = Without(@, c)]
              /\ UNCHANGED ready
         [] cpc[c] = "woken" ->
              LET q == cq[c]
                  wake == qItems[q] # <<>> /\ qGetters[q] # <<>> IN
              /\ cpc' = [x \in Callers |->
                           IF x = c THEN "idle"
                           ELSE IF wake /\ x = Head(qGetters[q]) THEN "woken"
                                ELSE cpc[x]]
              /\ qGetters' = [qGetters EXCEPT ![q] = IF wake THEN Tail(@) ELSE @]
              /\ ready' = Without(ready, c) \o
                              (IF wake THEN <<Head(qGetters[q])>> ELSE <<>>)
    /\ Finish(c, "Cancelled", "CancelledError", 0)
    /\ UNCHANGED <<blobVars, accVars, poolVars, availQ, qItems, timers, now,
                   cAvailAt, cMinWait, ops>>

\* --------------------------------------------- AccountCollection.flood_wait
\* The flood_wait task starts: it stamps the Account and goes to sleep.
FloodWaitStart(i) ==
    /\ i \in 1..Len(timers)
    /\ timers[i].wake = None
    /\ fwFrom' = [fwFrom EXCEPT ![timers[i].acc] = now]
    /\ fwTimeout' = [fwTimeout EXCEPT ![timers[i].acc] = timers[i].timeout]
    /\ timers' = [timers EXCEPT ![i].wake = now + timers[i].timeout]
    /\ UNCHANGED <<blobVars, started, connected, spc, poolVars, queueVars, now, callerVars, scanVars>>

\* (mutant) flood_wait that does not sleep
SleepOverAtOnce(t) == t.wake # None

\* The sleep is over
SleepOver(t) == t.wake # None /\ now >= t.wake

\* The flood_wait task wakes up: the Account is put back and its flood-wait
\* fields are cleared.
FloodWaitEnd(i) ==
    /\ i \in 1..Len(timers)
    /\ SleepOver(timers[i])
    /\ LET a == timers[i].acc
           q == availQ[PoolOf(a)] IN
        /\ qItems' = PutItems(q, <<a>>)
        /\ qGetters' = PutGetters(q, <<a>>)
        /\ ready' = ready \o WakeOrder(q, <<a>>)
        /\ cpc' = [x \in Callers |->
                     IF x \in WokenBy(q, <<a>>) THEN "woken" ELSE cpc[x]]
        /\ fwFrom' = [fwFrom EXCEPT ![a] = None]
        /\ fwTimeout' = [fwTimeout EXCEPT ![a] = 0]
    /\ timers' = RemoveAt(timers, i)
    /\ UNCHANGED <<blobVars, started, connected, spc, poolVars, availQ, now, cacc, cq, cdeadline, arrived,
                   cexit, cexc, cAvailAt, cMinWait, ops, scanVars>>

\* ------------------------------------------------------------------ clock
\* What the event loop runs before any time passes: a woken getter, a
\* created flood_wait task.
Runnable ==
    \/ \E c \in Callers : cpc[c] = "woken"
    \/ \E i \in 1..Len(timers) : timers[i].wake = None

\* The pending deadlines: sleeps of flood_wait, timeouts of wait_for.
Deadlines ==
    {timers[i].wake : i \in {j \in 1..Len(timers) : timers[j].wake # None}}
    \cup {cdeadline[c] : c \in {x \in Callers : cpc[x] = "waiting"}}

\* One second passes
Tick ==
    /\ ~Runnable
    /\ now < MaxTime
    /\ \A d \in Deadlines : now < d
    /\ now' = now + 1
    /\ UNCHANGED <<blobVars, accVars, poolVars, queueVars, timers, callerVars, scanVars>>

\* Time passes up to the next deadline
Jump ==
    /\ ~Runnable
    /\ Deadlines # {}
    /\ now < Min(Deadlines)
    /\ now' = Min(Deadlines)
    /\ UNCHANGED <<blobVars, accVars, poolVars, queueVars, timers, callerVars, scanVars>>

\* ------------------------------------------------------------------- Spec
\* One session of the pool p1, used through get_acc scopes.
Next ==
    \/ SessionEnter("p1")
    \/ \E a \in AccountsOf("p1") : StartTask(a)
    \/ StartSessionsReturn("p1")
    \/ \E err \in {"none", "BodyError"} : BodyExit("p1", err)
    \/ \E a \in AccountsOf("p1") : StopAccount(a)
    \/ CloseSessionsReturn("p1")
    \/ \E c \in Clients : GetAcc(c)
    \/ \E c \in Callers : GetterResume(c)
    \/ \E c \in Callers : GetAccTimeout(c)
    \/ \E c \in Callers : ExitNormal(c)
    \/ \E c \in Callers, v \in FloodValues : ExitFlood(c, v)
    \/ \E c \in Callers : ExitError(c, "Exception")
    \/ \E i \in 1..Len(timers) : FloodWaitStart(i)
    \/ \E i \in 1..Len(timers) : FloodWaitEnd(i)
    \/ Tick
    \/ Jump

Spec == Init /\ [][Next]_vars

\* The start and the end of one session of p1, for every combination of
\* session blobs and policies; the body makes no use of the pool.
\* The pool constructed over Accounts that may have been used before: the
\* session blob of each is absent, valid, or rejected by the server with
\* AuthKeyUnregistered or with UserDeactivated, and an Account is not started
\* but may still carry the flood-wait fields of a wait it was in.
InitAccountStart ==
    /\ lock = FALSE
    /\ blob \in {b \in [Accounts -> {"none", "valid", "revoked", "deactivated"}] :
                    b["C"] = "valid"}
    /\ invalid \in {i \in [Pools -> Policies] : i["p2"] = "ignore"}
    /\ started = [a \in Accounts |-> FALSE]
    /\ connected = [a \in Accounts |-> FALSE]
    /\ spc = [a \in Accounts |-> "none"]
    /\ fwTimeout \in [Accounts -> {0, MaxFlood}]
    /\ fwFrom = [a \in Accounts |-> IF fwTimeout[a] = 0 THEN None ELSE 0]
    /\ fwTimeout["C"] = 0
    /\ NoCache
    /\ InitRest

\* Accounts on their own, each started (by a valid session, or by
\* setup_new_session with no blob yet) or not, on which stop() is called up
\* to MaxOps times, one call per Account at a time.
InitStop ==
    /\ lock = FALSE
    /\ blob \in [Accounts -> {"none", "valid"}]
    /\ invalid = [p \in Pools |-> "ignore"]
    /\ started \in [Accounts -> BOOLEAN]
    /\ connected = started
    /\ spc = [a \in Accounts |-> "none"]
    /\ fwFrom = [a \in Accounts |-> None]
    /\ fwTimeout = [a \in Accounts |-> 0]
    /\ NoCache
    /\ InitRest

NextStop ==
    \/ \E a \in Accounts : StopCall(a)
    \/ \E a \in Accounts : StopSave(a)
    \/ \E a \in Accounts : StopDisconnect(a)
    \/ \E a \in Accounts : StopFinish(a)

SpecStop == InitStop /\ [][NextStop]_vars

NextStart ==
    \/ SessionEnter("p1")
    \/ \E a \in AccountsOf("p1") : StartTask(a)
    \/ StartSessionsReturn("p1")
    \/ \E err \in {"none", "BodyError"} : BodyExit("p1", err)
    \/ \E a \in AccountsOf("p1") : StopAccount(a)
    \/ CloseSessionsReturn("p1")

SpecStart == InitStart /\ [][NextStart]_vars
SpecAccountStart == InitAccountStart /\ [][NextStart]_vars

\* One Scanner.session from its entry to its end.  Scanner.__init__ passes
\* invalid="ignore" and builds the ChatCache when chat_cache is true.
InitScannerSession ==
    /\ InitCommon
    /\ lock \in BOOLEAN
    /\ blob \in {b \in [Accounts -> {"none", "valid", "revoked"}] : b["C"] = "valid"}
    /\ invalid = [p \in Pools |-> "ignore"]
    /\ cacheOn \in BOOLEAN
    /\ cacheChat = EmptyCache
    /\ cacheCount = None
    /\ saves = 0

SpecScannerSession == InitScannerSession /\ [][NextStart]_vars


\* The event loop runs every task that is ready and every callback that is
\* due, and the clock goes on: a created flood_wait task starts, a sleep or a
\* wait_for that is over ends, a woken getter resumes.
Fairness ==
    /\ WF_vars(\E i \in 1..Len(timers) : FloodWaitStart(i))
    /\ WF_vars(\E i \in 1..Len(timers) : FloodWaitEnd(i))
    /\ WF_vars(\E c \in Callers : GetterResume(c))
    /\ WF_vars(\E c \in Callers : GetAccTimeout(c))
    /\ WF_vars(Jump)

SpecFair == Spec /\ Fairness

\* One session of p1 whose callers may be cancelled
NextCancel ==
    \/ Next
    \/ \E c \in Callers : Cancel(c)

SpecCancel == Init /\ [][NextCancel]_vars

\* ------------------------------------------------- three callers, one Account
\* The session body of p1 with A its only started Account (B has no session
\* blob, policy "ignore"): c3 holds A in a get_acc scope, and c1, then c2,
\* called get_acc on the empty queue and wait.
InitFifo ==
    /\ NoCache
    /\ NoUtil
    /\ NoStats
    /\ lock = TRUE
    /\ blob = [a \in Accounts |-> IF a = "B" THEN "none" ELSE "valid"]
    /\ touches = [p \in Pools |-> IF p = "p1" THEN 1 ELSE 0]
    /\ rms = [p \in Pools |-> 0]
    /\ started = [a \in Accounts |-> a = "A"]
    /\ connected = started
    /\ spc = [a \in Accounts |-> "none"]
    /\ fwFrom = [a \in Accounts |-> None]
    /\ fwTimeout = [a \in Accounts |-> 0]
    /\ invalid = [p \in Pools |-> "ignore"]
    /\ ppc = [p \in Pools |-> IF p = "p1" THEN "body" ELSE "new"]
    /\ task = [a \in Accounts |->
                 IF a = "A" THEN "ok" ELSE IF a = "B" THEN "NoSessionFile" ELSE "none"]
    /\ stopping = [p \in Pools |-> {}]
    /\ sessErr = [p \in Pools |-> "none"]
    /\ errPhone = [p \in Pools |-> "none"]
    /\ errCause = [p \in Pools |-> "none"]
    /\ availQ = [p \in Pools |-> IF p = "p1" THEN 1 ELSE 2]
    /\ qItems = << <<>>, <<>> >>
    /\ qGetters = << <<"c1", "c2">>, <<>> >>
    /\ ready = <<>>
    /\ arrived = <<"c1", "c2">>
    /\ timers = <<>>
    /\ now = 0
    /\ cpc = [c \in Callers |-> IF c = "c3" THEN "holding" ELSE "waiting"]
    /\ cacc = [c \in Callers |-> IF c = "c3" THEN "A" ELSE "none"]
    /\ cq = [c \in Callers |-> IF c = "c3" THEN 0 ELSE 1]
    /\ cdeadline = [c \in Callers |->
                      IF c = "c3" THEN None ELSE MAX_ACC_WAITING_TIME]
    /\ cexit = [c \in Callers |-> "none"]
    /\ cexc = [c \in Callers |-> "none"]
    /\ cAvailAt = [c \in Callers |-> None]
    /\ cMinWait = [c \in Callers |-> <<>>]
    /\ ops = 0
    /\ cop = [c \in Callers |-> "get_acc"]
    /\ cres = [c \in Callers |-> NoResult]
    /\ cn = [c \in Callers |-> 0]
    /\ climit = [c \in Callers |-> None]
    /\ cmin = [c \in Callers |-> None]
    /\ chist = [c \in Callers |-> <<>>]
    /\ cchat = [c \in Callers |-> Chat]

NextFifo ==
    \/ \E c \in Callers : GetAcc(c)
    \/ \E c \in Callers : GetterResume(c)
    \/ \E c \in Callers : GetAccTimeout(c)
    \/ \E c \in Callers : ExitNormal(c)
    \/ \E c \in Callers, v \in FloodValues : ExitFlood(c, v)
    \/ \E c \in Callers : ExitError(c, "Exception")
    \/ \E i \in 1..Len(timers) : FloodWaitStart(i)
    \/ \E i \in 1..Len(timers) : FloodWaitEnd(i)
    \/ Tick
    \/ Jump

SpecFifo == InitFifo /\ [][NextFifo]_vars

\* ------------------------------------------------- min_wait on a timeout
\* The inputs of min_wait: for each Account, no flood wait, or one that began
\* e seconds ago and lasts t seconds.
ElapsedValues == {10 * i : i \in 0..MaxElapsed}
TimeoutValues == {30 * i : i \in 1..MaxTimeouts}
NoFlood == [e |-> None, t |-> 0]
FloodInputs == {NoFlood} \cup [e : ElapsedValues, t : TimeoutValues]

\* The flood_wait task of Account a under the input f at time t0
TimerOf(a, f, t0) ==
    [acc |-> a, timeout |-> f.t, wake |-> t0 - f.e + f.t, at |-> t0 - f.e]

\* The session body of p1, MAX_ACC_WAITING_TIME after c1 called get_acc on the
\* empty queue: c1 still waits, and A and B are each in a flood wait, or held
\* in a get_acc scope (A by c2, B by c3).
InitMinWait ==
    \E fa \in FloodInputs, fb \in FloodInputs :
    LET t0 == MAX_ACC_WAITING_TIME
        f == [a \in Accounts |-> IF a = "A" THEN fa ELSE IF a = "B" THEN fb ELSE NoFlood]
        ta == IF fa = NoFlood THEN <<>> ELSE <<TimerOf("A", fa, t0)>>
        tb == IF fb = NoFlood THEN <<>> ELSE <<TimerOf("B", fb, t0)>>
        holder == [a \in Accounts |-> IF a = "A" THEN "c2" ELSE "c3"] IN
    /\ NoCache
    /\ NoUtil
    /\ NoStats
    /\ lock = TRUE
    /\ blob = [a \in Accounts |-> "valid"]
    /\ touches = [p \in Pools |-> IF p = "p1" THEN 1 ELSE 0]
    /\ rms = [p \in Pools |-> 0]
    /\ started = [a \in Accounts |-> a \in AccountsOf("p1")]
    /\ connected = started
    /\ spc = [a \in Accounts |-> "none"]
    /\ fwFrom = [a \in Accounts |-> IF f[a] = NoFlood THEN None ELSE t0 - f[a].e]
    /\ fwTimeout = [a \in Accounts |-> f[a].t]
    /\ invalid = [p \in Pools |-> "ignore"]
    /\ ppc = [p \in Pools |-> IF p = "p1" THEN "body" ELSE "new"]
    /\ task = [a \in Accounts |-> IF a \in AccountsOf("p1") THEN "ok" ELSE "none"]
    /\ stopping = [p \in Pools |-> {}]
    /\ sessErr = [p \in Pools |-> "none"]
    /\ errPhone = [p \in Pools |-> "none"]
    /\ errCause = [p \in Pools |-> "none"]
    /\ availQ = [p \in Pools |-> IF p = "p1" THEN 1 ELSE 2]
    /\ qItems = << <<>>, <<>> >>
    /\ qGetters = << <<"c1">>, <<>> >>
    /\ ready = <<>>
    /\ arrived = <<"c1">>
    /\ timers = IF fa # NoFlood /\ fb # NoFlood /\ fb.e > fa.e
                THEN tb \o ta ELSE ta \o tb
    /\ now = t0
    /\ cpc = [c \in Callers |->
                IF c = "c1" THEN "waiting"
                ELSE IF \E a \in AccountsOf("p1") : holder[a] = c /\ f[a] = NoFlood
                     THEN "holding" ELSE "idle"]
    /\ cacc = [c \in Callers |->
                 IF c = "c2" /\ fa = NoFlood THEN "A"
                 ELSE IF c = "c3" /\ fb = NoFlood THEN "B" ELSE "none"]
    /\ cq = [c \in Callers |-> IF c = "c1" THEN 1 ELSE 0]
    /\ cdeadline = [c \in Callers |-> IF c = "c1" THEN t0 ELSE None]
    /\ cexit = [c \in Callers |->
                  IF c = "c2" /\ fa # NoFlood THEN "FloodWait"
                  ELSE IF c = "c3" /\ fb # NoFlood THEN "FloodWait" ELSE "none"]
    /\ cexc = [c \in Callers |-> "none"]
    /\ cAvailAt = [c \in Callers |-> None]
    /\ cMinWait = [c \in Callers |-> <<>>]
    /\ ops = 0
    /\ cop = [c \in Callers |-> "get_acc"]
    /\ cres = [c \in Callers |-> NoResult]
    /\ cn = [c \in Callers |-> 0]
    /\ climit = [c \in Callers |-> None]
    /\ cmin = [c \in Callers |-> None]
    /\ chist = [c \in Callers |-> <<>>]
    /\ cchat = [c \in Callers |-> Chat]

NextMinWait ==
    \/ \E c \in Callers : GetAcc(c)
    \/ \E c \in Callers : GetterResume(c)
    \/ \E c \in Callers : GetAccTimeout(c)
    \/ \E c \in Callers : ExitNormal(c)
    \/ \E c \in Callers, v \in FloodValues : ExitFlood(c, v)
    \/ \E c \in Callers : ExitError(c, "Exception")
    \/ \E i \in 1..Len(timers) : FloodWaitStart(i)
    \/ \E i \in 1..Len(timers) : FloodWaitEnd(i)
    \/ Jump

SpecMinWait == InitMinWait /\ [][NextMinWait]_vars

\* ------------------------------------------------------- two pools, one fs
\* Two pools constructed on the same BlobStore, no lock left behind; each
\* runs session() once, and the bodies make no use of the pools.
InitTwo ==
    /\ InitCommon
    /\ NoCache
    /\ lock = FALSE
    /\ blob \in {b \in [Accounts -> {"none", "valid"}] :
                   b["A"] = "valid" /\ b["C"] = "valid"}
    /\ invalid \in [Pools -> {"ignore", "raise"}]

NextTwo ==
    \/ \E p \in Pools : SessionEnter(p)
    \/ \E a \in Accounts : StartTask(a)
    \/ \E p \in Pools : StartSessionsReturn(p)
    \/ \E p \in Pools, err \in {"none", "BodyError"} : BodyExit(p, err)
    \/ \E a \in Accounts : StopAccount(a)
    \/ \E p \in Pools : CloseSessionsReturn(p)

SpecTwo == InitTwo /\ [][NextTwo]_vars

\* ----------------------------------------------------------- Scanner specs
\* Dates of messages, limits and min_dates that get_chat_history is called with
Dates == 0..MaxDate
HistoryLimits == (1..MaxLimit) \cup {None}
HistoryMinDates == (1..MaxDate) \cup {None}
\* the histories of a chat: up to MaxMsgs messages, each with its date
RECURSIVE HistoriesUpTo(_)
HistoriesUpTo(n) ==
    IF n = 0 THEN {<<>>}
    ELSE LET shorter == HistoriesUpTo(n - 1)
         IN  shorter \cup {Append(h, d) : h \in shorter, d \in Dates}
Histories == HistoriesUpTo(MaxMsgs)
\* those whose messages all have the latest date
RecentHistories == {h \in Histories : \A i \in 1..Len(h) : h[i] = MaxDate}

\* The exceptions, other than FloodWaitError, that a request may raise
ErrorKinds == {"Exception", "MsgIdInvalidError", "MessageIdInvalidError",
               "PeerIdInvalidError"}

\* A Scanner (invalid="ignore") whose fs holds the session of A only, with no
\* lock left behind; chat_cache is off, or on and loaded with or without the
\* chat.  The operations run in the session body, which does not end.
InitScanner ==
    /\ InitCommon
    /\ lock = FALSE
    /\ blob = [a \in Accounts |-> IF a = "B" THEN "none" ELSE "valid"]
    /\ invalid = [p \in Pools |-> "ignore"]
    /\ cacheOn \in BOOLEAN
    /\ cacheChat \in (IF cacheOn
                      THEN {EmptyCache,
                            [EmptyCache EXCEPT ![ensure_at_single(Chat)] = Resolve(Chat)]}
                      ELSE {EmptyCache})
    /\ cacheCount \in (IF Contains(Chat) THEN {None, 1} ELSE {None})
    /\ saves = 0

NextScanner ==
    \/ SessionEnter("p1")
    \/ \E a \in AccountsOf("p1") : StartTask(a)
    \/ StartSessionsReturn("p1")
    \/ \E c \in Clients : GetChat(c, Chat)
    \/ \E c \in Clients : GetChatMembersCount(c)
    \/ \E c \in Clients, msg \in {0, 1} : GetDiscussionRepliesCount(c, Chat, msg)
    \/ \E c \in Clients, hist \in RecentHistories :
          GetChatHistory(c, None, None, hist)
    \/ \E c \in Callers : HistoryYield(c)
    \/ \E c \in Clients, msg \in {0, 1}, limit \in HistoryLimits :
          GetDiscussionReplies(c, Chat, msg, limit)
    \/ \E c \in Callers : RepliesYield(c)
    \/ \E c \in Callers : GetterResume(c)
    \/ \E c \in Callers : GetAccTimeout(c)
    \/ \E c \in Callers : ExitNormal(c)
    \/ \E c \in Callers, v \in FloodValues : ExitFlood(c, v)
    \/ \E c \in Callers, e \in ErrorKinds : ExitError(c, e)
    \/ \E i \in 1..Len(timers) : FloodWaitStart(i)
    \/ \E i \in 1..Len(timers) : FloodWaitEnd(i)
    \/ Tick
    \/ Jump

SpecScanner == InitScanner /\ [][NextScanner]_vars

\* A Scanner without chat_cache; fs holds the session of A only.
InitHistory ==
    /\ InitCommon
    /\ NoCache
    /\ lock = FALSE
    /\ blob = [a \in Accounts |-> IF a = "B" THEN "none" ELSE "valid"]
    /\ invalid = [p \in Pools |-> "ignore"]

\* Its calls are get_chat_history only, over every history and every limit
\* and min_date.
NextHistory ==
    \/ SessionEnter("p1")
    \/ \E a \in AccountsOf("p1") : StartTask(a)
    \/ StartSessionsReturn("p1")
    \/ \E c \in Clients, limit \in HistoryLimits, min \in HistoryMinDates,
          hist \in Histories : GetChatHistory(c, limit, min, hist)
    \/ \E c \in Callers : HistoryYield(c)
    \/ \E c \in Callers : GetterResume(c)
    \/ \E c \in Callers : GetAccTimeout(c)
    \/ \E c \in Callers : ExitNormal(c)
    \/ \E c \in Callers, v \in FloodValues : ExitFlood(c, v)
    \/ \E c \in Callers : ExitError(c, "Exception")
    \/ \E i \in 1..Len(timers) : FloodWaitStart(i)
    \/ \E i \in 1..Len(timers) : FloodWaitEnd(i)
    \/ Tick
    \/ Jump

SpecHistory == InitHistory /\ [][NextHistory]_vars

\* A Scanner with or without chat_cache, the cache empty, whose calls are
\* get_chat calls made one after the other, over every chat_id of ChatIds.
\* (No get_acc of such calls times out: the only Account is never away for
\* longer than a flood wait.)
InitCache ==
    /\ InitCommon
    /\ lock = FALSE
    /\ blob = [a \in Accounts |-> IF a = "B" THEN "none" ELSE "valid"]
    /\ invalid = [p \in Pools |-> "ignore"]
    /\ cacheOn \in BOOLEAN
    /\ cacheChat = EmptyCache
    /\ cacheCount = None
    /\ saves = 0

NextCache ==
    \/ SessionEnter("p1")
    \/ \E a \in AccountsOf("p1") : StartTask(a)
    \/ StartSessionsReturn("p1")
    \/ \E c \in Clients, id \in ChatIds :
          /\ \A x \in Callers : cpc[x] = "idle"
          /\ GetChat(c, id)
    \/ \E c \in Callers : GetterResume(c)
    \/ \E c \in Callers : ExitNormal(c)
    \/ \E c \in Callers, v \in FloodValues : ExitFlood(c, v)
    \/ \E c \in Callers : ExitError(c, "Exception")
    \/ \E i \in 1..Len(timers) : FloodWaitStart(i)
    \/ \E i \in 1..Len(timers) : FloodWaitEnd(i)
    \/ Tick
    \/ Jump

SpecCache == InitCache /\ [][NextCache]_vars

\* The chat ids and message ids that the calls about replies are made with:
\* the empty and a non-empty chat_id; no, a zero and a positive msg_id (a
\* negative one is rejected by the same test as the missing one).
ReplyChatIds == {<<>>, Chat}
MsgIds == {None, 0, 1}

\* A Scanner without chat_cache whose calls are get_discussion_replies_count
\* and get_discussion_replies, over every chat_id and msg_id above.
NextReplies ==
    \/ SessionEnter("p1")
    \/ \E a \in AccountsOf("p1") : StartTask(a)
    \/ StartSessionsReturn("p1")
    \/ \E c \in Clients, id \in ReplyChatIds, msg \in MsgIds :
          GetDiscussionRepliesCount(c, id, msg)
    \/ \E c \in Clients, id \in ReplyChatIds, msg \in MsgIds,
          limit \in HistoryLimits : GetDiscussionReplies(c, id, msg, limit)
    \/ \E c \in Callers : RepliesYield(c)
    \/ \E c \in Callers : GetterResume(c)
    \/ \E c \in Callers : GetAccTimeout(c)
    \/ \E c \in Callers : ExitNormal(c)
    \/ \E c \in Callers, v \in FloodValues : ExitFlood(c, v)
    \/ \E c \in Callers : ExitError(c, "Exception")
    \/ \E i \in 1..Len(timers) : FloodWaitStart(i)
    \/ \E i \in 1..Len(timers) : FloodWaitEnd(i)
    \/ Tick
    \/ Jump

SpecReplies == InitHistory /\ [][NextReplies]_vars

\* ================================================================= claims
\* How often Account a is in available, in a get_acc scope, under a
\* flood_wait task.
InAvailable(a) == Count(available(PoolOf(a)), a)
Holders(a) == {c \in Callers : cacc[c] = a}
TimersOf(a) == {i \in 1..Len(timers) : timers[i].acc = a}
Places(a) == InAvailable(a) + Cardinality(Holders(a)) + Cardinality(TimersOf(a))

\* C1: during the session of a pool, every started Account is in exactly one
\* place: once in available, or in one get_acc scope, or under one flood_wait
\* task.
C1_QueueInvariant ==
    ppc["p1"] = "body" =>
        \A a \in AccountsOf("p1") : started[a] => Places(a) = 1

\* C1 witness: in the session, one Account is parked, the other is held.
C1_Witness ==
    /\ ppc["p1"] = "body"
    /\ TimersOf("A") # {}
    /\ Holders("B") # {}
    /\ started["A"] /\ started["B"]

\* C2: of two pools on one BlobStore that run session() concurrently, at
\* most one is inside its session body at any time.
C2_MutualExclusion == Cardinality({p \in Pools : ppc[p] = "body"}) <= 1

\* C3: session() entered while the lock exists raises "sessions in use" and
\* changes nothing else: no start task, no Account, no queue, no blob, and the
\* lock stays.
C3_RefusedStep ==
    (ppc["p1"] = "new" /\ lock /\ ppc'["p1"] # "new") =>
        /\ ppc'["p1"] = "refused"
        /\ sessErr'["p1"] = "SessionsInUse"
        /\ UNCHANGED <<blobVars, accVars, task, stopping, queueVars, timers>>

C3_RefusedState ==
    ppc["p1"] = "refused" =>
        /\ lock
        /\ rms["p1"] = 0 /\ touches["p1"] = 0
        /\ \A a \in AccountsOf("p1") : task[a] = "none" /\ ~started[a]
        /\ available("p1") = <<>>

C3_SessionsInUse == [][C3_RefusedStep]_vars /\ []C3_RefusedState

\* C3 witness: session() was refused.
C3_Witness == ppc["p1"] = "refused" /\ sessErr["p1"] = "SessionsInUse"

\* C4: a session that was entered touched the lock once; once its body is
\* left, normally or by an exception, the lock was removed once and is gone,
\* and after session() no Account is started.
C4_LockLifecycle ==
    /\ ppc["p1"] = "body" => (lock /\ touches["p1"] = 1 /\ rms["p1"] = 0)
    /\ (ppc["p1"] \in {"closing", "closed"} /\ touches["p1"] = 1) =>
            (~lock /\ rms["p1"] = 1)
    /\ (ppc["p1"] = "closed" /\ touches["p1"] = 1) =>
            \A a \in AccountsOf("p1") : ~started[a]
    /\ touches["p1"] <= 1

\* C4 witness: a session whose body raised is over.
C4_Witness ==
    /\ ppc["p1"] = "closed"
    /\ touches["p1"] = 1
    /\ sessErr["p1"] = "BodyError"

\* C5: under "ignore", start_sessions returns only when every start task has
\* ended, never raises AccountStartFailed, and on its return an Account is
\* started iff its task did not fail, and available holds the started
\* Accounts, each once, and no other.
C5_IgnoreStartup ==
    invalid["p1"] = "ignore" =>
        /\ sessErr["p1"] # "AccountStartFailed"
        /\ ppc["p1"] \in {"body", "closing", "closed"} =>
                \A a \in AccountsOf("p1") : task[a] \notin {"none", "pending"}
        /\ ppc["p1"] = "body" =>
                \A a \in AccountsOf("p1") :
                    /\ started[a] <=> task[a] = "ok"
                    /\ InAvailable(a) = (IF started[a] THEN 1 ELSE 0)
        /\ sessErr["p1"] = "ViolationError" =>
                \A a \in AccountsOf("p1") : task[a] # "ok"

\* C5 witness: the session is entered with A failed and B started.
C5_Witness ==
    /\ invalid["p1"] = "ignore"
    /\ ppc["p1"] = "body"
    /\ task["A"] = "NoSessionFile"
    /\ started["B"]

\* C6: under "raise" and "revalidate", a session is entered only when no
\* start failed; otherwise AccountStartFailed names an Account whose start
\* failed and is chained to that Account's exception; start_sessions itself
\* stops no Account.
C6_RaisedState ==
    invalid["p1"] # "ignore" =>
        /\ ppc["p1"] = "body" => \A a \in AccountsOf("p1") : task[a] = "ok"
        /\ sessErr["p1"] \in {"none", "BodyError", "SessionsInUse", "AccountStartFailed"}
        /\ sessErr["p1"] = "AccountStartFailed" =>
                /\ errPhone["p1"] \in AccountsOf("p1")
                /\ task[errPhone["p1"]] \notin {"none", "pending", "ok"}
                /\ errCause["p1"] = task[errPhone["p1"]]

C6_ReturnStep ==
    (ppc["p1"] = "starting" /\ ppc'["p1"] # "starting") =>
        /\ started' = started
        /\ \A a \in AccountsOf("p1") : task[a] = "ok" => started[a]
        /\ (invalid["p1"] # "ignore" /\ FailedTasks("p1") # <<>>) =>
                sessErr'["p1"] = "AccountStartFailed"

C6_RaiseStartup == []C6_RaisedState /\ [][C6_ReturnStep]_vars

\* C6 witness: AccountStartFailed("B") is on its way out while A, whose start
\* succeeded, is still started.
C6_Witness ==
    /\ invalid["p1"] = "raise"
    /\ sessErr["p1"] = "AccountStartFailed"
    /\ errPhone["p1"] = "B"
    /\ task["A"] = "ok" /\ started["A"]


\* C7: an Account whose scope ended with FloodWait(s) is neither in available
\* nor in a scope before s seconds have passed, and it ends up in available
\* again with flood_wait_from = None and flood_wait_timeout = 0.
C7_Absent ==
    \A i \in 1..Len(timers) :
        now < timers[i].at + timers[i].timeout =>
            /\ InAvailable(timers[i].acc) = 0
            /\ Holders(timers[i].acc) = {}

C7_Back(a) ==
    /\ InAvailable(a) = 1
    /\ TimersOf(a) = {}
    /\ fwFrom[a] = None
    /\ fwTimeout[a] = 0

\* a step that makes a parked Account available again comes no sooner than
\* s seconds after the FloodWait
C7_ReturnStep ==
    \A a \in AccountsOf("p1") :
        (TimersOf(a) # {} /\ InAvailable(a)' > InAvailable(a)) =>
            \E i \in TimersOf(a) : now >= timers[i].at + timers[i].timeout

C7_FloodWaitParking ==
    /\ []C7_Absent
    /\ [][C7_ReturnStep]_vars
    /\ \A a \in AccountsOf("p1") : (TimersOf(a) # {}) ~> C7_Back(a)

\* C7 witness: time has passed since the FloodWait and the Account is still
\* parked.
C7_Witness ==
    \E i \in 1..Len(timers) :
        /\ timers[i].at < now
        /\ now < timers[i].wake

\* C8: the step that ends a scope with FloodWaitError leaves no exception to
\* the caller and changes neither a queue nor any Account nor another caller.
C8_FloodStep ==
    \A c \in Callers :
        (cpc[c] = "holding" /\ cexit'[c] = "FloodWait") =>
            /\ cexc'[c] = "none"
            /\ cpc'[c] = "idle"
            /\ UNCHANGED <<queueVars, accVars, blobVars, poolVars>>
            /\ \A x \in Callers \ {c} : cpc'[x] = cpc[x] /\ cacc'[x] = cacc[x]
            /\ Len(timers') = Len(timers) + 1
            /\ SubSeq(timers', 1, Len(timers)) = timers

C8_FloodAbsorbedState ==
    \A c \in Callers : cexit[c] = "FloodWait" => cexc[c] = "none"

C8_FloodAbsorbed == [][C8_FloodStep]_vars /\ []C8_FloodAbsorbedState

\* C8 witness: a scope ended with FloodWaitError while the other Account was
\* in available.
C8_Witness ==
    \E c \in Callers :
        /\ cexit[c] = "FloodWait"
        /\ cpc[c] = "idle"
        /\ available("p1") # <<>>
        /\ ppc["p1"] = "body"

\* C9: the caller of a Scanner operation can tell a call that hit a FloodWait
\* in its scope apart from a call of the same operation, with the same
\* arguments, that completed successfully: the two calls do not give their
\* callers the same thing.
ScannerOps == {"get_chat", "get_chat_members_count",
               "get_discussion_replies_count", "get_chat_history"}
\* the discussion-reply operations, and the errors they translate
ReplyOps == {"get_discussion_replies", "get_discussion_replies_count"}
InvalidIdErrors == {"MsgIdInvalidError", "MessageIdInvalidError",
                    "PeerIdInvalidError"}
C9_FloodSurfaced ==
    \A c1 \in Callers, c2 \in Callers :
        ( /\ cpc[c1] = "idle" /\ cpc[c2] = "idle"
          /\ cop[c1] \in ScannerOps
          /\ cop[c2] = cop[c1]
          /\ climit[c2] = climit[c1] /\ cmin[c2] = cmin[c1]
          /\ cexit[c1] = "FloodWait"
          /\ cexit[c2] \in {"normal", "noscope"} )
        => cres[c1] # cres[c2]

\* C10: the step that ends a scope with another exception puts the Account at
\* the tail of available, starts no flood wait, leaves the flood-wait fields
\* alone, and the exception goes on to the caller.
C10_ErrorStep ==
    \A c \in Callers :
        (cpc[c] = "holding" /\ cexit'[c] = "Exception") =>
            /\ available("p1")' = Append(available("p1"), cacc[c])
            /\ cexc'[c] = "Exception"
            /\ timers' = timers
            /\ UNCHANGED <<fwFrom, fwTimeout, started>>

C10_ErrorState ==
    \A c \in Callers :
        cexit[c] = "Exception" => (cexc[c] = "Exception" /\ cres[c] = Raise("Exception"))

C10_ErrorReenqueue == [][C10_ErrorStep]_vars /\ []C10_ErrorState

\* C10 witness: a scope ended with an exception and its Account is the last
\* of available, behind the other one.
C10_Witness ==
    \E c \in Callers :
        /\ cexit[c] = "Exception"
        /\ cexc[c] = "Exception"
        /\ Len(available("p1")) = 2
        /\ ppc["p1"] = "body"

\* C11: cancelling a caller loses no Account: while the session body runs,
\* every started Account is still in available, in a scope, or under a
\* flood_wait task (a caller cancelled in its scope put its Account back).
C11_Cancellation ==
    ppc["p1"] = "body" =>
        \A a \in AccountsOf("p1") : started[a] => Places(a) >= 1

\* C12: callers that wait in get_acc on an empty queue receive Accounts in
\* the order in which they arrived: a waiting caller is handed an Account
\* only when no caller that arrived before it still waits.
C12_ServiceStep ==
    \A c \in Callers :
        (cpc[c] \in {"waiting", "woken"} /\ cpc'[c] = "holding") =>
            c = Head(arrived)

C12_FifoService == [][C12_ServiceStep]_vars

\* C13: a get_acc call that has to wait gets the deadline now +
\* MAX_ACC_WAITING_TIME and never waits beyond it; the step that times it out
\* happens at the deadline, raises the all-accounts-unavailable error, hands
\* out no Account and changes nothing of the pool (only the caller's own
\* getter goes away); available_at is now + the least remaining flood wait
\* when Accounts have flood_wait_from set and that least value is positive,
\* and absent otherwise; a waiting caller always stops waiting.
C13_Remaining ==
    {fwTimeout[a] - (now - fwFrom[a]) :
        a \in {x \in AccountsOf(CallerPool) : fwFrom[x] # None}}

C13_WaitStep ==
    \A c \in Callers :
        /\ (cpc[c] = "idle" /\ cpc'[c] = "waiting") =>
                cdeadline'[c] = now + MAX_ACC_WAITING_TIME
        /\ (cpc[c] = "waiting" /\ cexc'[c] = "AllAccountsUnavailable") =>
                /\ now = cdeadline[c]
                /\ cpc'[c] = "idle"
                /\ cacc'[c] = "none"
                /\ UNCHANGED <<availQ, qItems, ready, accVars, timers, blobVars,
                               poolVars>>
                /\ qGetters' = [qGetters EXCEPT ![cq[c]] = Without(@, c)]
                /\ \A x \in Callers \ {c} : cpc'[x] = cpc[x] /\ cacc'[x] = cacc[x]
                /\ cAvailAt'[c] =
                      IF C13_Remaining # {} /\ \A r \in C13_Remaining : r > 0
                      THEN now + (CHOOSE m \in C13_Remaining :
                                      \A r \in C13_Remaining : m <= r)
                      ELSE None

C13_WaitState ==
    \A c \in Callers : cpc[c] \in {"waiting", "woken"} => now <= cdeadline[c]

C13_Deadline ==
    /\ [][C13_WaitStep]_vars
    /\ []C13_WaitState
    /\ \A c \in Callers : (cpc[c] = "waiting") ~> (cpc[c] # "waiting")

\* C13 witness: a caller timed out while an Account was in a flood wait with
\* time remaining, and was told when it ends.
C13_Witness ==
    \E c \in Callers :
        /\ cexc[c] = "AllAccountsUnavailable"
        /\ cpc[c] = "idle"
        /\ cAvailAt[c] # None
        /\ cAvailAt[c] > now

\* C14: min_wait() returns None exactly when no Account has flood_wait_from
\* set, and otherwise the least, over the Accounts that have it set, of
\* flood_wait_timeout - (now - flood_wait_from); the call changes no Account
\* and no queue.
C14_Flooded == {a \in AccountsOf(CallerPool) : fwFrom[a] # None}

C14_MinWaitStep ==
    \A c \in Callers :
        (cpc[c] = "waiting" /\ cexc'[c] = "AllAccountsUnavailable") =>
            /\ (cMinWait'[c] = <<>>) <=> (C14_Flooded = {})
            /\ C14_Flooded # {} =>
                  /\ Len(cMinWait'[c]) = 1
                  /\ \E a \in C14_Flooded :
                        cMinWait'[c][1] = fwTimeout[a] - (now - fwFrom[a])
                  /\ \A a \in C14_Flooded :
                        cMinWait'[c][1] <= fwTimeout[a] - (now - fwFrom[a])
            /\ UNCHANGED <<accVars, availQ, qItems, timers>>

C14_MinWait == [][C14_MinWaitStep]_vars

\* C14 witness: with A in a flood wait of 60 s since 20 s and B in one of 30 s
\* since 10 s, min_wait() returned 20.
C14_Witness ==
    \E c \in Callers :
        /\ cexc[c] = "AllAccountsUnavailable"
        /\ cMinWait[c] = <<20>>
        /\ fwTimeout["A"] = 60 /\ fwFrom["A"] = now - 20
        /\ fwTimeout["B"] = 30 /\ fwFrom["B"] = now - 10

\* C15: a discussion-reply operation whose request raised an invalid-id
\* error ends without an error (the count is 0, the stream just ends); when
\* the request raised any other error, or get_acc raised all-accounts-
\* unavailable, that error reaches the caller.
C15_ErrorTranslation ==
    \A c \in Callers :
        (cpc[c] = "idle" /\ cop[c] \in ReplyOps) =>
            /\ (cexit[c] = "Exception" /\ cexc[c] \in InvalidIdErrors) =>
                    cres[c] \in {Return("int", 0)} \cup
                                {Stream("end", n) : n \in 0..MaxMsgs}
            /\ (cexit[c] = "Exception" /\ cexc[c] \notin InvalidIdErrors) =>
                    cres[c].what = cexc[c]
            /\ cexit[c] = "timeout" => cres[c].what = "AllAccountsUnavailable"

\* C16: a get_chat_history stream yields messages of the history in order, at
\* most limit of them when a limit is given, none older than min_date nor
\* any that follows the first message older than min_date, and never more
\* than the history holds; a stream that ended by itself ended for one of
\* these three reasons.
C16_Stream(c) ==
    /\ cn[c] <= Len(chist[c])
    /\ climit[c] # None => cn[c] <= climit[c]
    /\ cmin[c] # None =>
           \A i \in 1..Len(chist[c]) : chist[c][i] < cmin[c] => cn[c] < i
    /\ (cpc[c] = "idle" /\ cexit[c] = "normal") =>
           /\ cres[c] = Stream("end", cn[c])
           /\ \/ cn[c] = Len(chist[c])
              \/ climit[c] # None /\ cn[c] = climit[c]
              \/ cmin[c] # None /\ chist[c][cn[c] + 1] < cmin[c]

C16_HistoryTermination ==
    \A c \in Callers : cop[c] = "get_chat_history" => C16_Stream(c)

\* a stream that yielded a message and stopped at the first older one, which
\* the limit would have allowed
C16_Witness ==
    \E c \in Callers :
        /\ cop[c] = "get_chat_history"
        /\ cpc[c] = "idle" /\ cexit[c] = "normal"
        /\ cn[c] >= 1 /\ cn[c] < Len(chist[c])
        /\ climit[c] = None
        /\ cmin[c] # None /\ chist[c][cn[c] + 1] < cmin[c]

\* C17: a get_chat_history call checks out one Account, before its first
\* message; every message is yielded under that same check-out; while the
\* stream is in progress its Account is in no other scope, not in available
\* and under no flood_wait task; the call is over once the Account is given
\* up; and the step that ends the stream by itself (iterator end, limit
\* reached, message older than min_date) puts the Account at the tail of
\* available.
C17_InProgress(c) ==
    /\ cop[c] = "get_chat_history"
    /\ cpc[c] = "holding"

C17_StreamStep(c) ==
    /\ \* the check-out precedes every message
       (cacc[c] = "none" /\ cacc'[c] # "none") => cn'[c] = 0
    /\ \* a message is yielded under the check-out, which stays
       cn'[c] > cn[c] => (C17_InProgress(c) /\ cacc'[c] = cacc[c])
    /\ \* the Account is not exchanged for another
       cacc[c] # "none" => cacc'[c] \in {cacc[c], "none"}
    /\ \* giving up the Account ends the call
       (cacc[c] # "none" /\ cacc'[c] = "none") => cpc'[c] = "idle"
    /\ \* the stream ends by itself: the Account is re-enqueued
       (C17_InProgress(c) /\ cexit'[c] = "normal" /\ cpc'[c] = "idle") =>
           /\ HistoryDone(c)
           /\ available("p1")' = Append(available("p1"), cacc[c])

C17_StreamState(c) ==
    C17_InProgress(c) =>
        /\ cacc[c] # "none"
        /\ Holders(cacc[c]) = {c}
        /\ InAvailable(cacc[c]) = 0
        /\ TimersOf(cacc[c]) = {}

C17_SingleCheckout ==
    /\ [][\A c \in Callers : cop'[c] = "get_chat_history" => C17_StreamStep(c)]_vars
    /\ [](\A c \in Callers : C17_StreamState(c))

\* a stream that yielded MaxMsgs messages has ended at the end of the
\* iterator, its Account is back in available, and the other caller, who
\* waited for the stream to end, holds no Account yet
C17_Witness ==
    \E c \in Callers :
        /\ cop[c] = "get_chat_history"
        /\ cpc[c] = "idle" /\ cexit[c] = "normal"
        /\ cn[c] = MaxMsgs /\ cn[c] = Len(chist[c])
        /\ InAvailable("A") = 1
        /\ \E x \in Callers \ {c} : cpc[x] = "woken"

\* C18: chat ids that differ only in case and in a leading "@" name the same
\* key.  With chat_cache enabled, a get_chat call whose key is cached checks
\* out no Account, touches no queue and returns the cached entity, any other
\* call enters get_acc, and a call whose request is answered leaves its key
\* cached with the entity it returns; so of the calls made one after the
\* other on an empty cache with the same key, the first that returns checked
\* out an Account (one request), no two did, and all return the same entity.
\* With chat_cache disabled every call enters get_acc and every returned
\* entity comes from the request of its own scope.
C18_Bare(id) == Lower(IF StartsWithAt(id) THEN Tail(id) ELSE id)
C18_SameKey(i, j) == C18_Bare(i) = C18_Bare(j)

C18_Returned(c) ==
    /\ cop[c] = "get_chat"
    /\ cpc[c] = "idle"
    /\ cres[c].kind = "return" /\ cres[c].what = "entity"

C18_CallStep(c) ==
    /\ (\E id \in ChatIds : GetChat(c, id)) =>
           IF cacheOn /\ \E k \in Keys :
                   cacheChat[k] # None /\ C18_SameKey(k, cchat'[c])
           THEN /\ cexit'[c] = "noscope"
                /\ cres'[c] = Return("entity", Resolve(cchat'[c]))
                /\ UNCHANGED <<queueVars, cacc, cpc, timers>>
           ELSE cpc'[c] \in {"holding", "waiting"}
    /\ (cop[c] = "get_chat" /\ cpc[c] = "holding" /\ cexit'[c] = "normal") =>
           /\ cres'[c] = Return("entity", Resolve(cchat[c]))
           /\ cacheOn => \A id \in ChatIds :
                  C18_SameKey(id, cchat[c]) =>
                      cacheChat'[ensure_at_single(id)] = Resolve(cchat[c])

C18_Calls ==
    \A c \in Callers : \A d \in Callers \ {c} :
        /\ (C18_Returned(c) /\ ~cacheOn) => cexit[c] = "normal"
        /\ ( /\ cacheOn /\ C18_Returned(c) /\ C18_Returned(d)
             /\ C18_SameKey(cchat[c], cchat[d]) ) =>
               /\ ~(cexit[c] = "normal" /\ cexit[d] = "normal")
               /\ cres[c] = cres[d]

C18_CacheHitMiss ==
    /\ [][\A c \in Callers : C18_CallStep(c)]_vars
    /\ []C18_Calls

\* with chat_cache enabled, get_chat("@X") made the request and get_chat("x")
\* after it returned the same entity without a scope
C18_Witness ==
    \E c \in Callers : \E d \in Callers \ {c} :
        /\ cacheOn
        /\ C18_Returned(c) /\ C18_Returned(d)
        /\ cchat[c] = <<"@", "X">> /\ cchat[d] = <<"x">>
        /\ cexit[c] = "normal" /\ cexit[d] = "noscope"
        /\ cres[c] = cres[d]

\* C19: a get_discussion_replies_count or get_discussion_replies call with no
\* msg_id, a msg_id <= 0 or an empty chat_id returns 0 / the empty sequence
\* at once: the caller enters no get_acc scope and waits for none, and the
\* available queue, the Accounts and the flood_wait tasks are untouched.
C19_Invalid(id, msg) == msg = None \/ msg <= 0 \/ id = <<>>

C19_NoEffect(c) ==
    /\ cexit'[c] = "noscope"
    /\ cpc'[c] = "idle" /\ cacc'[c] = "none"
    /\ UNCHANGED <<queueVars, timers, accVars, cpc, cacc>>

C19_ValidationStep ==
    \A c \in Callers, id \in ReplyChatIds, msg \in MsgIds :
        C19_Invalid(id, msg) =>
            /\ GetDiscussionRepliesCount(c, id, msg) =>
                   (cres'[c] = Return("int", 0) /\ C19_NoEffect(c))
            /\ \A limit \in HistoryLimits :
                   GetDiscussionReplies(c, id, msg, limit) =>
                       (cres'[c] = Stream("end", 0) /\ C19_NoEffect(c))

C19_Validation == [][C19_ValidationStep]_vars

\* both operations were called with an empty chat_id and returned without a
\* scope, while the Account is in available
C19_Witness ==
    /\ cop["c1"] = "get_discussion_replies_count" /\ cop["c2"] = "get_discussion_replies"
    /\ \A c \in Clients :
           cchat[c] = <<>> /\ cexit[c] = "noscope" /\ cpc[c] = "idle"
    /\ cres["c1"] = Return("int", 0) /\ cres["c2"] = Stream("end", 0)
    /\ available("p1") = <<"A">>

\* C20: the step in which Account.start ends.  Without revalidate it raises
\* NoSessionFile when there is no session blob and the server's
\* AuthKeyUnregistered or UserDeactivated when the stored session is
\* rejected, and the Account is not started; with revalidate these cases end
\* as setup_new_session ends; a valid session starts; and whenever start
\* returns, started is true, flood_wait_from is None and flood_wait_timeout
\* is 0.
C20_StartEnds(a) == task[a] = "pending" /\ task'[a] # "pending"

C20_StartStep(a) ==
    LET revalidate == invalid[PoolOf(a)] = "revalidate" IN
    C20_StartEnds(a) =>
        /\ (~revalidate /\ blob[a] = "none") =>
               (task'[a] = "NoSessionFile" /\ ~started'[a])
        /\ (~revalidate /\ blob[a] = "revoked") =>
               (task'[a] = "AuthKeyUnregistered" /\ ~started'[a])
        /\ (~revalidate /\ blob[a] = "deactivated") =>
               (task'[a] = "UserDeactivated" /\ ~started'[a])
        /\ (revalidate /\ blob[a] # "valid") => task'[a] \in {"ok", "SetupError"}
        /\ blob[a] = "valid" => task'[a] = "ok"
        /\ task'[a] = "ok" =>
               (started'[a] /\ fwFrom'[a] = None /\ fwTimeout'[a] = 0)
        /\ task'[a] # "ok" => UNCHANGED <<started, fwFrom, fwTimeout>>

C20_StartOutcome == [][\A a \in Accounts : C20_StartStep(a)]_vars

\* without revalidate, A's start raised AuthKeyUnregistered and B's raised
\* NoSessionFile, and neither is started
C20_Witness ==
    /\ invalid["p1"] # "revalidate"
    /\ blob["A"] = "revoked" /\ task["A"] = "AuthKeyUnregistered" /\ ~started["A"]
    /\ blob["B"] = "none" /\ task["B"] = "NoSessionFile" /\ ~started["B"]

\* C21: an Account that is started holds, in the blob at its filename, the
\* session string of the session it runs: in particular after start went
\* through setup_new_session, and before any stop().
C21_SetupPersisted ==
    \A a \in AccountsOf("p1") :
        (task[a] = "ok" /\ started[a]) => blob[a] = "valid"

\* C22: stop() on an Account that is not started changes nothing; on a
\* started one the blob is written while the client still runs and the
\* Account is still started, the client is disconnected after that and before
\* started is cleared; a finished stop() leaves the Account not started, so a
\* second stop() in a row is the stop() that changes nothing.
C22_StopStep(a) ==
    /\ (StopCall(a) /\ ~started[a]) =>
           UNCHANGED <<blob, connected, started, spc, fwFrom, fwTimeout>>
    /\ blob'[a] # blob[a] =>
           (spc[a] = "saving" /\ started[a] /\ connected[a] /\ blob'[a] = "valid"
            /\ started'[a] /\ connected'[a])
    /\ (connected[a] /\ ~connected'[a]) =>
           (spc[a] = "saved" /\ blob[a] = "valid" /\ started'[a])
    /\ (started[a] /\ ~started'[a]) =>
           (spc[a] = "stopped" /\ blob[a] = "valid" /\ ~connected[a]
            /\ spc'[a] = "none")

C22_StopState(a) ==
    /\ spc[a] # "none" => started[a]
    /\ spc[a] \in {"saved", "stopped"} => blob[a] = "valid"
    /\ spc[a] = "stopped" => ~connected[a]
    /\ (spc[a] = "none" /\ ~started[a]) => ~connected[a]

C22_Stop ==
    /\ [][\A a \in Accounts : C22_StopStep(a)]_vars
    /\ [](\A a \in Accounts : C22_StopState(a))

\* stop() was called twice on an Account whose session was not yet in the
\* blob: it is stopped, disconnected, and the blob is written
C22_Witness ==
    \E a \in Accounts :
        /\ ops = 2
        /\ spc[a] = "none" /\ ~started[a] /\ ~connected[a]
        /\ blob[a] = "valid"
        /\ \A b \in Accounts \ {a} :
               blob[b] = "none" /\ started[b] /\ spc[b] = "none"

\* C23: once close_sessions has completed, no Account of the pool is started
\* and available is empty.
C23_AllStopped ==
    ppc["p1"] = "closed" =>
        /\ \A a \in AccountsOf("p1") : ~started[a]
        /\ available("p1") = <<>>

\* ---------------------------------------------------------------------- C24
\* C24: Scanner.session cleans up on every path.  Whether the body returns
\* normally, the body raises or start_sessions fails, once the session is
\* over the lock is removed and every Account is stopped, and
\* chat_cache.save() has run exactly once if there is a chat_cache and never
\* otherwise; save() runs at no other moment than the end of the pool's
\* session, so never while the session is starting, in its body or closing.
C24_Over ==
    ppc["p1"] = "closed" =>
        /\ ~lock
        /\ \A a \in AccountsOf("p1") : ~started[a] /\ ~connected[a]
        /\ saves = (IF cacheOn THEN 1 ELSE 0)

C24_NotBefore ==
    ppc["p1"] \in {"idle", "starting", "body", "closing"} => saves = 0

C24_SaveStep ==
    saves' # saves =>
        /\ ppc["p1"] \notin {"closed", "refused"}
        /\ ppc'["p1"] \in {"closed", "refused"}
        /\ \A a \in AccountsOf("p1") : ~started'[a]

C24_Cleanup == [](C24_Over /\ C24_NotBefore) /\ [][C24_SaveStep]_vars

\* the body raised with an Account started, and the session is over with the
\* cache saved
C24_Witness ==
    /\ ppc["p1"] = "closed"
    /\ sessErr["p1"] = "BodyError"
    /\ cacheOn
    /\ saves = 1
    /\ blob["A"] = "valid"

\* start_sessions failed and the session is over with the cache saved
C24_WitnessStartFailed ==
    /\ ppc["p1"] = "closed"
    /\ sessErr["p1"] \notin {"none", "BodyError"}
    /\ cacheOn
    /\ saves = 1

\* ---------------------------------------------------------------------- C25
\* C25: in every reachable state and for every Account, flood_wait_from is
\* None if and only if flood_wait_timeout is 0, whatever duration the
\* FloodWaitError carries: 0 seconds, more, or no seconds value.
C25_FloodFieldsAgree ==
    \A a \in Accounts : (fwFrom[a] = None) <=> (fwTimeout[a] = 0)

\* ============================================================== tg.utils
\* A str is a sequence of symbols.  A symbol is one character, except
\* "https:" and "t.me", which stand for these runs of characters: no other
\* string of the model has a part of them in it.
MaxParts == 4
HTTPS == <<"https:", "/", "/">>
Digits == {"0", "1"}

StartsWith(s, p) == Len(s) >= Len(p) /\ SubSeq(s, 1, Len(p)) = p

\* str.split("/"): the pieces between the slashes, one piece at least
RECURSIVE Split(_)
Split(s) ==
    IF \A i \in 1..Len(s) : s[i] # "/"
    THEN <<s>>
    ELSE LET i == CHOOSE i \in 1..Len(s) :
                      s[i] = "/" /\ \A j \in 1..(i - 1) : s[j] # "/"
         IN  <<SubSeq(s, 1, i - 1)>> \o Split(SubSeq(s, i + 1, Len(s)))

\* "/".join(parts)
RECURSIVE Join(_)
Join(parts) ==
    IF parts = <<>> THEN <<>>
    ELSE IF Len(parts) = 1 THEN parts[1]
    ELSE parts[1] \o <<"/">> \o Join(Tail(parts))

\* int(s) returns for an optional sign followed by one digit at least, and
\* raises ValueError otherwise
IsInt(s) ==
    LET d == IF s # <<>> /\ s[1] = "-" THEN Tail(s) ELSE s
    IN  d # <<>> /\ \A i \in 1..Len(d) : d[i] \in Digits

RECURSIVE Decimal(_)
Decimal(d) ==
    IF d = <<>> THEN 0
    ELSE 10 * Decimal(SubSeq(d, 1, Len(d) - 1)) + (IF d[Len(d)] = "1" THEN 1 ELSE 0)

\* int(s), for a string that IsInt
IntOf(s) == IF s[1] = "-" THEN 0 - Decimal(Tail(s)) ELSE Decimal(s)

Returned(chat, msg) == [kind |-> "returned", exc |-> "none", chat |-> chat, msg |-> msg]
Raised(exc) == [kind |-> "raised", exc |-> exc, chat |-> <<>>, msg |-> 0]

\* (mutant) a parser that takes the first path segment whatever it is
ChatSegmentFirst(parts) == parts[2]

\* chat_id: the segment after "c" when there are more than three parts and
\* the first path segment is "c", the first path segment otherwise
ChatSegment(parts) ==
    IF Len(parts) > 3
    THEN (IF parts[2] = <<"c">> THEN parts[3] ELSE parts[2])
    ELSE parts[2]

\* parse_telegram_message_url(url): what it returns, or the exception it
\* raises.  With one part only, parts[1] raises IndexError.
parse_telegram_message_url(u) ==
    LET v == IF StartsWith(u, HTTPS) THEN SubSeq(u, 4, Len(u)) ELSE u
        parts == Split(v)
        last == parts[Len(parts)]
    IN  IF parts[1] # <<"t.me">> THEN Raised("AssertionError")
        ELSE IF Len(parts) < 2 THEN Raised("IndexError")
        ELSE IF ~IsInt(last) THEN Raised("ValueError")
        ELSE IF ChatSegment(parts) = <<>> THEN Raised("AssertionError")
        ELSE IF ~(IntOf(last) > 0) THEN Raised("AssertionError")
        ELSE Returned(ChatSegment(parts), IntOf(last))

\* The URLs passed: with and without "https://", a host or none, and up to
\* MaxParts path segments, each a name, a number, "c", or empty
Hosts == {<<"t.me">>, <<"u">>, <<>>}
Segments == {<<>>, <<"c">>, <<"u">>, <<"u", "1">>, <<"0">>, <<"1">>, <<"1", "0">>,
             <<"-", "1">>}
RECURSIVE PathsUpTo(_)
PathsUpTo(n) ==
    IF n = 0 THEN {<<>>}
    ELSE LET shorter == PathsUpTo(n - 1)
         IN  shorter \cup {Append(p, s) : p \in {q \in shorter : Len(q) = n - 1},
                                          s \in Segments}
Scheme(https) == IF https THEN HTTPS ELSE <<>>
Urls == {Scheme(https) \o Join(<<h>> \o p) :
            https \in BOOLEAN, h \in Hosts, p \in PathsUpTo(MaxParts)}

\* Nothing but tg.utils runs: a pool that is never entered
InitIdle ==
    /\ started = [a \in Accounts |-> FALSE]
    /\ connected = [a \in Accounts |-> FALSE]
    /\ spc = [a \in Accounts |-> "none"]
    /\ fwFrom = [a \in Accounts |-> None]
    /\ fwTimeout = [a \in Accounts |-> 0]
    /\ InitPool
    /\ NoCache
    /\ lock = FALSE
    /\ blob = [a \in Accounts |-> "valid"]
    /\ invalid = [p \in Pools |-> "ignore"]

idleVars == <<blobVars, accVars, invalid, statVars, ppc, task, stopping, sessErr, errPhone,
              errCause, queueVars, timers, now, callerVars, scanVars>>

InitUrl ==
    /\ InitIdle
    /\ NoStats
    /\ url \in Urls
    /\ parsed = NotCalled
    /\ sarg = NoValue
    /\ sres = NoValue

\* One call of parse_telegram_message_url
ParseUrl ==
    /\ parsed = NotCalled
    /\ parsed' = parse_telegram_message_url(url)
    /\ UNCHANGED <<idleVars, url, sarg, sres>>

SpecUrl == InitUrl /\ [][ParseUrl]_vars

\* ---------------------------------------------------------------------- C26
\* C26: for each accepted form, t.me/<user>/<id>, t.me/<user>/<thread>/<id>,
\* t.me/c/<channel>/<id> and t.me/c/<channel>/<thread>/<id>, with or without
\* "https://", parse_telegram_message_url returns (chat_id, message_id) with
\* chat_id the channel when the path begins with "c/" and the user
\* otherwise, and message_id the last segment as an integer; and whenever it
\* returns, chat_id is not empty and message_id is greater than 0.
\* (t.me/c/<thread>/<id> is read as t.me/c/<channel>/<id>.)
C26_Names == Segments \ {<<>>}
C26_Ids == {<<"1">>, <<"1", "0">>}
C26_Value(id) == IF id = <<"1">> THEN 1 ELSE 10
C26_Url(https, path) == Scheme(https) \o Join(<<(<<"t.me">>)>> \o path)

C26_Forms ==
    parsed # NotCalled =>
        \A https \in BOOLEAN, name \in C26_Names, thread \in C26_Names, id \in C26_Ids :
            /\ url = C26_Url(https, <<name, id>>)
                    => parsed = Returned(name, C26_Value(id))
            /\ (url = C26_Url(https, <<name, thread, id>>) /\ name # <<"c">>)
                    => parsed = Returned(name, C26_Value(id))
            /\ url = C26_Url(https, <<(<<"c">>), name, id>>)
                    => parsed = Returned(name, C26_Value(id))
            /\ url = C26_Url(https, <<(<<"c">>), name, thread, id>>)
                    => parsed = Returned(name, C26_Value(id))

C26_Positive ==
    parsed.kind = "returned" => parsed.chat # <<>> /\ parsed.msg > 0

C26_Success == C26_Forms /\ C26_Positive

\* https://t.me/c/u1/0/10 was parsed into (u1, 10)
C26_Witness ==
    /\ url = C26_Url(TRUE, <<(<<"c">>), <<"u", "1">>, <<"0">>, <<"1", "0">> >>)
    /\ parsed = Returned(<<"u", "1">>, 10)

\* ---------------------------------------------------------------------- C27
\* C27: parse_telegram_message_url fails with AssertionError when the URL
\* does not start with "t.me/" (after an optional "https://"), when the chat
\* segment is empty or when the message id is 0 or less, and with ValueError
\* when the last segment is missing, empty or not an integer; in none of
\* these cases does it return.  Where two of the cases hold at once, either
\* of their two errors is taken as right.
C27_Rest == IF StartsWith(url, HTTPS) THEN SubSeq(url, 4, Len(url)) ELSE url
C27_NoHost == ~StartsWith(C27_Rest, <<"t.me", "/">>)
C27_Path == Split(SubSeq(C27_Rest, 3, Len(C27_Rest)))
C27_Last == C27_Path[Len(C27_Path)]
C27_NoInt == ~C27_NoHost /\ ~IsInt(C27_Last)
C27_NoChat == ~C27_NoHost /\ ChatSegment(<<(<<"t.me">>)>> \o C27_Path) = <<>>
C27_NotPositive == ~C27_NoHost /\ IsInt(C27_Last) /\ IntOf(C27_Last) <= 0

C27_FailureKinds ==
    parsed # NotCalled =>
        /\ (C27_NoHost \/ C27_NoInt \/ C27_NoChat \/ C27_NotPositive)
                => parsed.kind = "raised"
        /\ parsed.kind = "raised" =>
                \/ parsed.exc = "AssertionError"
                        /\ (C27_NoHost \/ C27_NoChat \/ C27_NotPositive)
                \/ parsed.exc = "ValueError" /\ C27_NoInt

\* ------------------------------------------------ ensure_at_single, any input
MaxName == 3
NameChars == {"@", "X", "x", "Y", "y"}
RECURSIVE StringsUpTo(_)
StringsUpTo(n) ==
    IF n = 0 THEN {<<>>}
    ELSE LET shorter == StringsUpTo(n - 1)
         IN  shorter \cup {Append(s, ch) : s \in {t \in shorter : Len(t) = n - 1},
                                           ch \in NameChars}

Str(s) == [type |-> "str", str |-> s, int |-> 0]
\* What a caller may pass: a str, an int (a chat's numeric id) or None
Values == {Str(s) : s \in StringsUpTo(MaxName)}
              \cup {[type |-> "int", str |-> <<>>, int |-> n] : n \in {0, 1}}
              \cup {[type |-> "NoneType", str |-> <<>>, int |-> 0]}

\* ensure_at_single(s) with its isinstance test
EnsureAtSingle(x) == IF x.type # "str" THEN x ELSE Str(ensure_at_single(x.str))

InitNormalize ==
    /\ InitIdle
    /\ NoStats
    /\ url = <<>>
    /\ parsed = NotCalled
    /\ sarg \in Values
    /\ sres = NoValue

\* A call of ensure_at_single: the first on the input, the next ones on the
\* result of the call before
Normalize ==
    LET x == IF sres = NoValue THEN sarg ELSE sres IN
    /\ sarg' = x
    /\ sres' = EnsureAtSingle(x)
    /\ UNCHANGED <<idleVars, url, parsed>>

SpecNormalize == InitNormalize /\ [][Normalize]_vars

\* ---------------------------------------------------------------------- C28
\* C28: ensure_at_single(ensure_at_single(x)) = ensure_at_single(x) for every
\* input x; for a string the result starts with "@" and has no upper-case
\* character; an input that is not a string is returned as it is.
C28_Idempotent == sres # NoValue => sres' = sres

C28_Result ==
    sres # NoValue =>
        /\ EnsureAtSingle(sres) = sres
        /\ sarg.type = "str" =>
                /\ sres.type = "str"
                /\ StartsWithAt(sres.str)
                /\ \A i \in 1..Len(sres.str) : sres.str[i] \notin {"X", "Y"}
        /\ sarg.type # "str" => sres = sarg

C28_Normalization == []C28_Result /\ [][C28_Idempotent]_vars

\* "@" was put before a string with an upper-case character in it, and a
\* second call was made on the result
C28_Witness ==
    /\ sarg = Str(<<"@", "x", "y">>)
    /\ sres = sarg

\* the first call, on Xy
C28_WitnessFirst ==
    /\ sarg = Str(<<"X", "y">>)
    /\ sres = Str(<<"@", "x", "y">>)

\* ---------------------------------------------------------------------- C29
\* C29: the available queue is FIFO over the puts.  An Account is handed out
\* from the head only; the Account that a get_acc scope returns on its normal
\* exit goes behind every Account then in the queue; and so does the Account
\* whose flood-wait sleep ends, wherever it stood before.  (A getter takes
\* from the queue it waits on, which close_sessions may have replaced since.)
C29_QueueStep ==
    LET cur == availQ["p1"] IN
    /\ \A c \in Callers :
           (cacc[c] = "none" /\ cacc'[c] # "none") =>
               \E q \in 1..Len(qItems) :
                   /\ qItems[q] # <<>>
                   /\ cacc'[c] = Head(qItems[q])
                   /\ qItems'[q] = Tail(qItems[q])
    /\ \A c \in Callers :
           ExitNormal(c) => qItems'[cur] = Append(qItems[cur], cacc[c])
    /\ \A i \in 1..Len(timers) :
           FloodWaitEnd(i) => qItems'[cur] = Append(qItems[cur], timers[i].acc)
    /\ \A q \in 1..Len(qItems) :
           LET old == qItems[q]
               new == qItems'[q] IN
           new # old =>
               IF Len(new) < Len(old)
               THEN new = Tail(old)
               ELSE Len(new) > Len(old) /\ SubSeq(new, 1, Len(old)) = old

C29_Fifo == [][C29_QueueStep]_vars

\* A was at the head, was parked by a FloodWait, and stands behind B now
C29_Witness ==
    /\ available("p1") = <<"B", "A">>
    /\ timers = <<>>
    /\ \E c \in Callers : cexit[c] = "FloodWait"
    /\ \A c \in Callers : cexit[c] \in {"none", "FloodWait"}

\* ---------------------------------------------------------------------- C30
\* C30: whenever start_sessions returns normally an Account is started, and
\* available is not empty; when under "ignore" every Account fails to start,
\* start_sessions does not return normally (its postcondition raises), so
\* that the body of the session is never entered with no Account started.
C30_ReturnStep ==
    (ppc["p1"] = "starting" /\ ppc'["p1"] = "body") =>
        /\ \E a \in AccountsOf("p1") : started'[a]
        /\ qItems'[availQ'["p1"]] # <<>>

C30_Body ==
    /\ ppc["p1"] = "body" => \E a \in AccountsOf("p1") : started[a]
    /\ (/\ invalid["p1"] = "ignore"
        /\ \A a \in AccountsOf("p1") : task[a] \notin {"none", "pending", "ok"})
            => /\ ppc["p1"] # "body"
               /\ touches["p1"] = 0
               /\ ppc["p1"] \in {"closing", "closed"} => sessErr["p1"] = "ViolationError"

C30_StartedOnReturn == []C30_Body /\ [][C30_ReturnStep]_vars

\* under "ignore" neither Account started, and the session ended with the
\* violation of the postcondition, its body never run
C30_Witness ==
    /\ invalid["p1"] = "ignore"
    /\ \A a \in AccountsOf("p1") : task[a] \notin {"none", "pending", "ok"}
    /\ ppc["p1"] = "closed"
    /\ sessErr["p1"] = "ViolationError"
    /\ touches["p1"] = 0

\* ---------------------------------------------------------------------- C31
\* C31: with a chat_cache, get_chat_members_count for a chat that has no item
\* in the cache fetches the count through a checked-out Account, stores it
\* on the chat's item and returns it: the call does not fail for want of the
\* item.
C31_CountFetched ==
    \A c \in Callers :
        (cacheOn /\ cop[c] = "get_chat_members_count") =>
            cres[c] # Raise("KeyError")

\* ======================================== StatsCollector.collect_msg_stats
\* One call of collect_msg_stats(channel) in the session body.  Caller c1
\* runs its get_chat_history; the add_replies task of the message with id 1
\* is caller c2, that of the message with id 2 is caller c3.
MsgIdsOfHistory == {1, 2}
RECURSIVE IdSeqsUpTo(_)
IdSeqsUpTo(n) ==
    IF n = 0 THEN {<<>>}
    ELSE LET shorter == IdSeqsUpTo(n - 1)
         IN  shorter \cup {Append(s, id) : s \in {t \in shorter : Len(t) = n - 1},
                                           id \in MsgIdsOfHistory}
ReplyTask(id) == IF id = 1 THEN "c2" ELSE "c3"

\* The keys of msgs_dict: the ids of the messages that the stream yielded
CollectedIds == {histIds[i] : i \in 1..cn["c1"]}

\* The "async for" over get_chat_history has ended without an exception
HistoryOver ==
    /\ cop["c1"] = "get_chat_history"
    /\ cpc["c1"] = "idle"
    /\ cres["c1"].kind = "stream"
    /\ cres["c1"].what = "end"

InitCollect ==
    /\ started = [a \in Accounts |-> FALSE]
    /\ connected = [a \in Accounts |-> FALSE]
    /\ spc = [a \in Accounts |-> "none"]
    /\ fwFrom = [a \in Accounts |-> None]
    /\ fwTimeout = [a \in Accounts |-> 0]
    /\ InitPool
    /\ NoUtil
    /\ NoCache
    /\ lock = FALSE
    /\ blob \in {b \in [Accounts -> {"none", "valid"}] :
                   b["A"] = "valid" /\ b["C"] = "valid"}
    /\ invalid = [p \in Pools |-> "ignore"]
    /\ histIds \in IdSeqsUpTo(MaxMsgs)
    /\ yielded = <<>>

\* collect_msg_stats is called and enters get_chat_history(channel,
\* min_date=self.min_date).  (MaxOps bounds the add_replies tasks.)
CollectMsgStats(min, hist) ==
    /\ cop["c1"] = "none"
    /\ cpc["c1"] = "idle"
    /\ ppc[CallerPool] = "body"
    /\ Len(hist) = Len(histIds)
    /\ cop' = [cop EXCEPT !["c1"] = "get_chat_history"]
    /\ cn' = [cn EXCEPT !["c1"] = 0]
    /\ climit' = [climit EXCEPT !["c1"] = None]
    /\ cmin' = [cmin EXCEPT !["c1"] = min]
    /\ chist' = [chist EXCEPT !["c1"] = hist]
    /\ cchat' = [cchat EXCEPT !["c1"] = Chat]
    /\ EnterGetAcc("c1")
    /\ UNCHANGED <<cacheVars, ops>>

\* The task add_replies(msg_id, msg) runs: it calls
\* get_discussion_replies_count(channel, msg_id)
AddReplies(id) ==
    /\ HistoryOver
    /\ id \in CollectedIds
    /\ cop[ReplyTask(id)] = "none"
    /\ GetDiscussionRepliesCount(ReplyTask(id), Chat, id)

\* replies of msg._replace(replies=...): what get_discussion_replies_count
\* returned (None when it fell off its end), 0 when it raised
RepliesOf(r) ==
    IF r.kind = "return" THEN (IF r.what = "int" THEN r.n ELSE None) ELSE 0

\* "for completed in asyncio.as_completed(tasks)": the Msg of a task that is
\* done is yielded
CollectYield(id) ==
    LET c == ReplyTask(id) IN
    /\ HistoryOver
    /\ id \in CollectedIds
    /\ cop[c] = "get_discussion_replies_count"
    /\ cpc[c] = "idle"
    /\ cres[c] # NoResult
    /\ \A i \in 1..Len(yielded) : yielded[i].id # id
    /\ yielded' = Append(yielded, [id |-> id, replies |-> RepliesOf(cres[c])])
    /\ UNCHANGED <<blobVars, accVars, invalid, utilVars, histIds, ppc, task, stopping,
                   sessErr, errPhone, errCause, queueVars, timers, now, callerVars,
                   scanVars>>

NextCollect ==
    \/ SessionEnter("p1")
    \/ \E a \in AccountsOf("p1") : StartTask(a)
    \/ StartSessionsReturn("p1")
    \/ \E min \in HistoryMinDates, hist \in Histories : CollectMsgStats(min, hist)
    \/ HistoryYield("c1")
    \/ \E id \in MsgIdsOfHistory : AddReplies(id)
    \/ \E id \in MsgIdsOfHistory : CollectYield(id)
    \/ \E c \in Callers : GetterResume(c)
    \/ \E c \in Callers : GetAccTimeout(c)
    \/ \E c \in Callers : ExitNormal(c)
    \/ \E c \in Callers, v \in FloodValues : ExitFlood(c, v)
    \/ \E c \in Callers : ExitError(c, "Exception")
    \/ \E i \in 1..Len(timers) : FloodWaitStart(i)
    \/ \E i \in 1..Len(timers) : FloodWaitEnd(i)
    \/ Tick
    \/ Jump

SpecCollect == InitCollect /\ [][NextCollect]_vars

\* ---------------------------------------------------------------------- C32
\* C32: collect_msg_stats starts the get_discussion_replies_count tasks only
\* when the history stream is over, its Account checked in; it then yields
\* one Msg at most for a message id, only for ids of the history, and each
\* Msg carries the count that the task of its own message obtained, or 0 when
\* that task obtained none.
C32_TasksAfterHistory ==
    \A id \in MsgIdsOfHistory :
        cop[ReplyTask(id)] # "none" =>
            /\ HistoryOver
            /\ cacc["c1"] = "none"
            /\ id \in CollectedIds

C32_OnePerId ==
    \A i \in 1..Len(yielded) :
        /\ yielded[i].id \in CollectedIds
        /\ \A j \in 1..Len(yielded) : yielded[j].id = yielded[i].id => j = i

C32_OwnCount ==
    \A i \in 1..Len(yielded) :
        LET r == cres[ReplyTask(yielded[i].id)] IN
        yielded[i].replies = (IF r.kind = "return" /\ r.what = "int" THEN r.n ELSE 0)

C32_MsgStats == C32_TasksAfterHistory /\ C32_OnePerId /\ C32_OwnCount

\* ================================================ sessions one after another
\* The same pool is entered again after its session has exited, MaxSessions
\* times in all.  The body of a session returns when the get_acc scopes it
\* opened have ended; flood_wait tasks, which nothing cancels, may still
\* sleep then.
MaxSessions == 2

InitSessions ==
    /\ InitCommon
    /\ NoCache
    /\ lock = FALSE
    /\ blob \in {b \in [Accounts -> {"none", "valid"}] :
                   b["A"] = "valid" /\ b["C"] = "valid"}
    /\ invalid = [p \in Pools |-> "ignore"]

\* "async with pool.session()" once more: the lock is gone (fs.rm in the
\* finally clause of the session before), start_sessions creates the start
\* tasks anew.
SessionReenter(p) ==
    /\ ppc[p] = "closed"
    /\ touches[p] < MaxSessions
    /\ ~lock
    /\ ppc' = [ppc EXCEPT ![p] = "starting"]
    /\ task' = [a \in Accounts |-> IF a \in AccountsOf(p) THEN "pending" ELSE task[a]]
    /\ sessErr' = [sessErr EXCEPT ![p] = "none"]
    /\ errPhone' = [errPhone EXCEPT ![p] = "none"]
    /\ errCause' = [errCause EXCEPT ![p] = "none"]
    /\ UNCHANGED <<blobVars, accVars, invalid, utilVars, statVars, stopping, queueVars,
                   timers, now, callerVars, scanVars>>

\* The body returns, every scope it opened being over
BodyReturn(p) ==
    /\ \A c \in Callers : cpc[c] = "idle"
    /\ BodyExit(p, "none")

\* acc.stop() of close_sessions ends: it waited for the network, so the
\* flood_wait tasks created before have run to their sleep by then
StopAccountAfterIO(a) ==
    /\ \A i \in 1..Len(timers) : timers[i].wake # None
    /\ StopAccount(a)

NextSessions ==
    \/ SessionEnter("p1")
    \/ SessionReenter("p1")
    \/ \E a \in AccountsOf("p1") : StartTask(a)
    \/ StartSessionsReturn("p1")
    \/ BodyReturn("p1")
    \/ \E a \in AccountsOf("p1") : StopAccountAfterIO(a)
    \/ CloseSessionsReturn("p1")
    \/ \E c \in Clients : GetAcc(c)
    \/ \E c \in Callers : GetterResume(c)
    \/ \E c \in Callers : GetAccTimeout(c)
    \/ \E c \in Callers : ExitNormal(c)
    \/ \E c \in Callers, v \in FloodValues \ {0} : ExitFlood(c, v)
    \/ \E i \in 1..Len(timers) : FloodWaitStart(i)
    \/ \E i \in 1..Len(timers) : FloodWaitEnd(i)
    \/ Tick
    \/ Jump

SpecSessions == InitSessions /\ [][NextSessions]_vars

\* ---------------------------------------------------------------------- C33
\* C33: once the session of a pool has exited, its available queue stays
\* empty: a flood_wait task that was created during the session and still
\* sleeps at the exit does not put its Account, stopped by then, into the
\* queue when it wakes.
C33_EmptyAfterExit ==
    ppc["p1"] = "closed" => available("p1") = <<>>

\* ---------------------------------------------------------------------- C34
\* C34: over sessions opened one after another on the same pool, sessions
\* that end with Accounts parked included, no Account is in available more
\* than once, and no Account is held by two get_acc scopes at a time.
C34_OnceInAvailable ==
    \A a \in AccountsOf("p1") :
        Cardinality({i \in 1..Len(available("p1")) : available("p1")[i] = a}) <= 1

C34_OneHolder ==
    \A c \in Callers : \A d \in Callers \ {c} :
        cacc[c] = cacc[d] => cacc[c] = "none"

C34_NoDuplicate == C34_OnceInAvailable /\ C34_OneHolder

\* ---------------------------------------------------------------------- C35
\* C35: when session() has failed with AccountStartFailed under "raise" or
\* "revalidate" and every start task that was still pending has run to its
\* end, no Account of the pool is started and none keeps its connection.
C35_NoLeak ==
    (/\ invalid["p1"] # "ignore"
     /\ sessErr["p1"] = "AccountStartFailed"
     /\ ppc["p1"] = "closed"
     /\ \A a \in AccountsOf("p1") : task[a] # "pending")
        => \A a \in AccountsOf("p1") : ~started[a] /\ ~connected[a]

\* ---------------------------------------------------------------------- C36
\* C36: while a pool is in its session body, the lock exists in fs: no
\* session attempt of another pool on the same fs removes it, whether the
\* attempt is refused, fails in start_sessions, or runs and exits.
C36_LockHeld ==
    \A p \in Pools : ppc[p] = "body" => lock

\* ---------------------------------------------------------------------- C37
\* C37: a Scanner.session attempt that is refused with "Sessions are already
\* in use" leaves fs as it was: the lock stays, no session blob is written
\* and the .chat_cache blob is not written.
C37_RefusedFrame ==
    ppc["p1"] = "refused" =>
        /\ lock
        /\ rms["p1"] = 0 /\ touches["p1"] = 0
        /\ \A a \in AccountsOf("p1") : ~started[a] /\ spc[a] = "none"
        /\ saves = 0

\* ------------------------------------------- get_chat_history, abandoned
\* The consumer of get_chat_history stops iterating and the generator is
\* closed (aclose(), or the event loop's finalizer for a dropped async
\* generator): GeneratorExit is raised at "yield msg", inside "async with
\* self.get_acc()", and thrown into get_acc at "yield acc".  GeneratorExit
\* derives from BaseException: neither "except FloodWaitError" nor "except
\* Exception" catches it, and get_acc has no finally: nothing is put back.
\* The generator is suspended at "yield msg" only after it yielded a message.
CloseHistory(c) ==
    /\ cpc[c] = "holding"
    /\ cop[c] = "get_chat_history"
    /\ cn[c] >= 1
    /\ cpc' = [cpc EXCEPT ![c] = "idle"]
    /\ cacc' = [cacc EXCEPT ![c] = "none"]
    /\ cexit' = [cexit EXCEPT ![c] = "Closed"]
    /\ cexc' = [cexc EXCEPT ![c] = "GeneratorExit"]
    /\ Finish(c, "Closed", "GeneratorExit", 0)
    /\ UNCHANGED <<blobVars, accVars, poolVars, queueVars, timers, now, cq,
                   cdeadline, arrived, cAvailAt, cMinWait, ops>>

\* The get_chat_history calls of SpecHistory without FloodWait and errors,
\* each stream read to its end or abandoned after a message.
NextAbandon ==
    \/ SessionEnter("p1")
    \/ \E a \in AccountsOf("p1") : StartTask(a)
    \/ StartSessionsReturn("p1")
    \/ \E c \in Clients, limit \in HistoryLimits, min \in HistoryMinDates,
          hist \in Histories : GetChatHistory(c, limit, min, hist)
    \/ \E c \in Callers : HistoryYield(c)
    \/ \E c \in Callers : CloseHistory(c)
    \/ \E c \in Callers : GetterResume(c)
    \/ \E c \in Callers : GetAccTimeout(c)
    \/ \E c \in Callers : ExitNormal(c)
    \/ Tick
    \/ Jump

SpecAbandon == InitHistory /\ [][NextAbandon]_vars

\* ---------------------------------------------------------------------- C38
\* C38: closing a get_chat_history stream before its end puts the Account
\* of the stream back: while the session body runs, every started Account
\* is in available or in a scope (no FloodWait occurs here), also after a
\* stream was abandoned.
C38_AbandonedPutBack ==
    ppc["p1"] = "body" =>
        \A a \in AccountsOf("p1") : started[a] => Places(a) >= 1

\* ---------------------------------------------------------------------- C39
\* C39: whatever way a get_discussion_replies_count call ends, it returns an
\* integer from 0 to 1000, also when its Account hits FloodWait.
C39_Ended(c) ==
    /\ cop[c] = "get_discussion_replies_count"
    /\ cpc[c] = "idle"
    /\ cres[c].kind # "none"

C39_IntegerResult ==
    \A c \in Callers :
        C39_Ended(c) =>
            /\ cres[c].kind = "return"
            /\ cres[c].what = "int"
            /\ cres[c].n \in 0..1000

\* --------------------------------------------- concurrent operations, served
\* A Scanner without chat_cache on a pool with one or two Accounts that start.
InitServe ==
    /\ InitCommon
    /\ NoCache
    /\ lock = FALSE
    /\ blob \in {b \in [Accounts -> {"none", "valid"}] :
                   b["A"] = "valid" /\ b["C"] = "valid"}
    /\ invalid = [p \in Pools |-> "ignore"]

\* The request of the scope of c goes on: the stream yields its next
\* message, or the body of the scope ends, with its value or with an error.
RpcStep(c) ==
    \/ HistoryYield(c)
    \/ ExitNormal(c)
    \/ ExitError(c, "Exception")

\* Concurrent tasks of the session body call the operations of Scanner and
\* get_acc itself; no request ends with FloodWait and no task is cancelled.
NextServe ==
    \/ SessionEnter("p1")
    \/ \E a \in AccountsOf("p1") : StartTask(a)
    \/ StartSessionsReturn("p1")
    \/ \E c \in Callers : GetAcc(c)
    \/ \E c \in Callers : GetChat(c, Chat)
    \/ \E c \in Callers : GetChatMembersCount(c)
    \/ \E c \in Callers : GetDiscussionRepliesCount(c, Chat, 1)
    \/ \E c \in Callers, hist \in RecentHistories :
          GetChatHistory(c, None, None, hist)
    \/ \E c \in Callers : RpcStep(c)
    \/ \E c \in Callers : GetterResume(c)
    \/ \E c \in Callers : GetAccTimeout(c)
    \/ Tick
    \/ Jump

\* The event loop runs what is ready and the clock goes on (Fairness), and
\* every request terminates.
FairServe ==
    /\ Fairness
    /\ \A c \in Callers : WF_vars(RpcStep(c))

SpecServe == InitServe /\ [][NextServe]_vars /\ FairServe

\* ---------------------------------------------------------------------- C40
\* No caller waits in get_acc while it holds an Account.
C40_NoHoldAndWait ==
    \A c \in Callers :
        cpc[c] \in {"waiting", "woken"} =>
            /\ cacc[c] = "none"
            /\ \A a \in Accounts : c \notin Holders(a)

\* Whenever no operation is under way in the session body, every started
\* Account is in available, once.
C40_AllBack ==
    (ppc["p1"] = "body" /\ \A c \in Callers : cpc[c] = "idle") =>
        \A a \in AccountsOf("p1") : started[a] => InAvailable(a) = 1

\* Every operation that is under way completes.
C40_Completes ==
    \A c \in Callers : (cpc[c] # "idle") ~> (cpc[c] = "idle")

\* Every get_acc call that waits is served, or raises the
\* all-accounts-unavailable error at its deadline.
C40_ServedOrTimedOut ==
    \A c \in Callers :
        (cpc[c] = "waiting") ~> (cpc[c] = "holding" \/ cexit[c] = "timeout")

\* C40 (as amended): no operation waits in get_acc while it holds an
\* Account; when no FloodWait occurs and every request terminates, every
\* get_acc call is served or times out after MAX_ACC_WAITING_TIME, every
\* operation completes, and all Accounts are back in available then.
C40_NoDeadlock ==
    /\ []C40_NoHoldAndWait
    /\ []C40_AllBack
    /\ C40_Completes
    /\ C40_ServedOrTimedOut

\* C40 (as stated): ... every get_acc call is eventually served.
C40_Served ==
    /\ []C40_NoHoldAndWait
    /\ []C40_AllBack
    /\ C40_Completes
    /\ \A c \in Callers : (cpc[c] = "waiting") ~> (cpc[c] = "holding")

\* C40 witness: a caller waited in get_acc behind the scope of another
\* operation; that scope ended, its Account is back in available and the
\* waiting caller was woken to take it.
C40_Witness ==
    \E c, d \in Callers :
        /\ c # d
        /\ cpc[c] = "woken" /\ cacc[c] = "none"
        /\ cpc[d] = "idle" /\ cexit[d] = "normal"
        /\ cop[d] = "get_chat_history"
        /\ available("p1") # <<>>

====
